---- MODULE Spec2Model ----
(***************************************************************************)
(* A model of the agent orchestration engine of the property-search        *)
(* assistant: the conversation memory manager (memory-manager.ts), the      *)
(* tool registry and the ReAct trace parser / agent loop (reactAgent.ts).  *)
(*                                                                         *)
(* Conventions                                                             *)
(*   - an optional value (T | null | undefined) is a sequence: <<>> when   *)
(*     absent, <<v>> when present;                                         *)
(*   - a text is a record [text, len]: its identity and its character      *)
(*     count (String.length); Tokenize gives the words the regular         *)
(*     expressions of the source look at;                                  *)
(*   - JSON.stringify(v) is [isText |-> TRUE, val |-> v]; a store that     *)
(*     hands back parsed JSON gives [isText |-> FALSE, val |-> v].         *)
(***************************************************************************)
EXTENDS Integers, Sequences, FiniteSets, TLC

VARIABLES
  now,              \* Date.now(), in milliseconds
  nextId,           \* source of the random id suffixes / store-assigned ids
  faults,           \* store and provider failures injected so far
  storeFormat,      \* "text": list() returns JSON fields as persisted text
  currentSession,   \* MemoryManager.currentSession (optional)
  userPreferences,  \* MemoryManager.userPreferences (optional)
  dbSessions,       \* rows of blink.db.conversationSessions
  dbPrefs,          \* rows of blink.db.userPreferences
  pc,               \* position of the one running operation
  call,             \* arguments and locals of the running operation
  steps,            \* ReActAgent.steps
  response,         \* what the last operation returned (optional)
  callers,          \* other callers at work: their own copies and positions
  log               \* observation of the run: what the claims speak about

memVars == <<currentSession, userPreferences, dbSessions, dbPrefs>>
envVars == <<now, nextId, faults, storeFormat, callers>>
agentVars == <<pc, call, steps, response>>
vars == <<now, nextId, faults, storeFormat, currentSession, userPreferences,
          dbSessions, dbPrefs, pc, call, steps, response, callers, log>>

(***************************************************************************)
(* Bounds of the model                                                     *)
(***************************************************************************)
MaxFaults == 1
MaxAdds == 3
MaxCtxLen == 3
MaxHistCalls == 3
MaxLines == 3
MaxTraceLines == 4
MaxInits == 3
MaxUpdates == 2
MaxGain == 60
MaxStepLines == 16

(***************************************************************************)
(* Program constants                                                       *)
(***************************************************************************)
maxMessagesInMemory == 20
maxTokensEstimate == 8000
CharsPerToken == 4
MaxSearchHistory == 50
oneHour == 60 * 60 * 1000
oneMinute == 60 * 1000

(***************************************************************************)
(* Generic helpers                                                         *)
(***************************************************************************)
None == <<>>
Some(x) == <<x>>
IsSome(o) == Len(o) > 0
Min(a, b) == IF a < b THEN a ELSE b
Max(a, b) == IF a > b THEN a ELSE b
Range(s) == {s[i] : i \in 1..Len(s)}

\* Array.prototype.slice(start) with one argument
JsSlice(s, start) ==
  LET from == IF start < 0 THEN Max(Len(s) + start, 0) ELSE Min(start, Len(s))
  IN SubSeq(s, from + 1, Len(s))

\* [...new Set(s)]: first occurrences, in order
\* the array spread without the Set
DedupMutant(s) == s

RECURSIVE Dedup(_)
Dedup(s) ==
  IF s = <<>> THEN <<>>
  ELSE LET init == Dedup(SubSeq(s, 1, Len(s) - 1))
           last == s[Len(s)]
       IN IF last \in Range(init) THEN init ELSE Append(init, last)

RECURSIVE SumLen(_)
SumLen(msgs) ==
  IF msgs = <<>> THEN 0 ELSE msgs[1].content.len + SumLen(Tail(msgs))

Stringify(v) == [isText |-> TRUE, val |-> v]
\* what list() hands back for a field that was written as JSON text
Returned(field) == [isText |-> storeFormat = "text", val |-> field.val]
\* MemoryManager.parseJsonField on a non-empty field
parseJsonField(field) == field.val

IsSystem(m) == m.role = "system"
NotSystem(m) == m.role # "system"

Text(t, n) == [text |-> t, len |-> n]
Str(t) == [text |-> t, len |-> Len(t)]

(***************************************************************************)
(* Texts and their words.  The regular expressions of the source are       *)
(* matched on the lower-cased words of a text; a number literal is a word  *)
(* with n >= 0 (parseInt of the digits, commas removed).                   *)
(***************************************************************************)
W(s) == [w |-> s, n |-> -1]
N(k) == [w |-> "", n |-> k]
IsNum(tok) == tok.n >= 0

QPlain == Str("hello there")
QFlat == Str("Find me a 2BHK apartment in Kathmandu under NPR 30,000")
QFamily == Str("three bedroom villa near Thamel for my family, budget is 900")
QRoi == Str("ROI of gain 1200000 cost 1000000")
QRoiZero == Str("roi 5000 0")
QRoiOne == Str("ROI on 4 million")
QYield == Str("rental yield 120000 2000000")
QSum == Str("2 + 3")
QDivZero == Str("1 / 0")
QRent == Str("flat for rent budget of NPR 30000 - 40000")
QHouse == Str("a 4 bedroom house in Lalitpur or Kathmandu, max 50000")
Empty == Str("")

\* String.prototype.includes
Includes(s, p) == \E i \in 1..(Len(s) - Len(p) + 1) : SubSeq(s, i, i + Len(p) - 1) = p

\* String.prototype.toLowerCase on the letters the answers are written with
LowerLetter(ch) ==
  CASE ch = "A" -> "a" [] ch = "B" -> "b" [] ch = "C" -> "c" [] ch = "D" -> "d"
    [] ch = "E" -> "e" [] ch = "F" -> "f" [] ch = "G" -> "g" [] ch = "H" -> "h"
    [] ch = "I" -> "i" [] ch = "J" -> "j" [] ch = "K" -> "k" [] ch = "L" -> "l"
    [] ch = "M" -> "m" [] ch = "N" -> "n" [] ch = "O" -> "o" [] ch = "P" -> "p"
    [] ch = "Q" -> "q" [] ch = "R" -> "r" [] ch = "S" -> "s" [] ch = "T" -> "t"
    [] ch = "U" -> "u" [] ch = "V" -> "v" [] ch = "W" -> "w" [] ch = "X" -> "x"
    [] ch = "Y" -> "y" [] ch = "Z" -> "z" [] OTHER -> ch

RECURSIVE toLowerCase(_)
toLowerCase(s) ==
  IF s = "" THEN ""
  ELSE LowerLetter(SubSeq(s, 1, 1)) \o toLowerCase(SubSeq(s, 2, Len(s)))

\* a text the table below does not list: its words are what the spaces
\* separate, a word of digits being a number literal
Digits == {"0", "1", "2", "3", "4", "5", "6", "7", "8", "9"}
DigitValue(ch) ==
  CASE ch = "0" -> 0 [] ch = "1" -> 1 [] ch = "2" -> 2 [] ch = "3" -> 3 [] ch = "4" -> 4
    [] ch = "5" -> 5 [] ch = "6" -> 6 [] ch = "7" -> 7 [] ch = "8" -> 8 [] OTHER -> 9
IsDigits(w) == w # "" /\ \A i \in 1..Len(w) : SubSeq(w, i, i) \in Digits

RECURSIVE parseInt(_)
parseInt(w) ==
  IF w = "" THEN 0
  ELSE parseInt(SubSeq(w, 1, Len(w) - 1)) * 10 + DigitValue(SubSeq(w, Len(w), Len(w)))

WordEnd(s) ==
  LET spaces == {i \in 1..Len(s) : SubSeq(s, i, i) = " "}
  IN IF spaces = {} THEN Len(s) + 1 ELSE CHOOSE i \in spaces : \A j \in spaces : i <= j

LexWord(word) ==
  IF word = "" THEN <<>>
  ELSE IF IsDigits(word) THEN <<N(parseInt(word))>>
  ELSE <<W(toLowerCase(word))>>

RECURSIVE Lex(_)
Lex(s) ==
  IF s = "" THEN <<>>
  ELSE LexWord(SubSeq(s, 1, WordEnd(s) - 1)) \o Lex(SubSeq(s, WordEnd(s) + 1, Len(s)))

\* String.prototype.toLowerCase, then the words
Tokenize(text) ==
  CASE text = QFlat ->
         <<W("find"), W("me"), W("a"), N(2), W("bhk"), W("apartment"), W("in"),
           W("kathmandu"), W("under"), W("npr"), N(30000)>>
    [] text = QFamily ->
         <<W("three"), W("bedroom"), W("villa"), W("near"), W("thamel"), W("for"),
           W("my"), W("family"), W("budget"), W("is"), N(900)>>
    [] text = QRoi ->
         <<W("roi"), W("of"), W("gain"), N(1200000), W("cost"), N(1000000)>>
    [] text = QRoiZero -> <<W("roi"), N(5000), N(0)>>
    [] text = QRoiOne -> <<W("roi"), W("on"), N(4), W("million")>>
    [] text = QYield -> <<W("rental"), W("yield"), N(120000), N(2000000)>>
    [] text = QSum -> <<N(2), W("+"), N(3)>>
    [] text = QDivZero -> <<N(1), W("/"), N(0)>>
    [] text = QRent ->
         <<W("flat"), W("for"), W("rent"), W("budget"), W("of"), W("npr"), N(30000),
           W("-"), N(40000)>>
    [] text = QHouse ->
         <<W("a"), N(4), W("bedroom"), W("house"), W("in"), W("lalitpur"), W("or"),
           W("kathmandu"), W("max"), N(50000)>>
    [] text = QPlain -> <<W("hello"), W("there")>>
    [] OTHER -> Lex(text.text)

\* leftmost match of  kw \s* (opt)? \s* ([0-9,]+) ; the captured number
KwNumAt(t, i, kws, opt) ==
  /\ t[i].w \in kws
  /\ \/ (i + 1 <= Len(t) /\ IsNum(t[i + 1]))
     \/ (i + 2 <= Len(t) /\ t[i + 1].w \in opt /\ IsNum(t[i + 2]))
KwNum(t, kws, opt) ==
  LET hits == {i \in 1..Len(t) : KwNumAt(t, i, kws, opt)}
  IN IF hits = {} THEN None
     ELSE LET i == CHOOSE j \in hits : \A k \in hits : j <= k
          IN Some(IF IsNum(t[i + 1]) THEN t[i + 1].n ELSE t[i + 2].n)
\* leftmost match of  ([0-9,]+ | word) \s* kw ; the captured first word
IsNumberWord(tok) == tok.w \in {"one", "two", "three", "four", "five"}
BeforeKw(t, firsts, kws) ==
  LET hits == {i \in 1..(Len(t) - 1) :
                 /\ IF firsts = "digits" THEN IsNum(t[i]) ELSE IsNumberWord(t[i])
                 /\ t[i + 1].w \in kws}
  IN IF hits = {} THEN None
     ELSE Some(t[CHOOSE j \in hits : \A k \in hits : j <= k])

\* the first pattern of a list that matches
RECURSIVE FirstMatch(_)
FirstMatch(matches) ==
  IF matches = <<>> THEN None
  ELSE IF IsSome(matches[1]) THEN matches[1] ELSE FirstMatch(Tail(matches))

budgetPatterns(t) ==
  << KwNum(t, {"under", "below", "maximum", "max", "budget", "afford"}, {"npr", "rs"}),
     KwNum(t, {"npr", "rs"}, {}),
     LET m == BeforeKw(t, "digits", {"npr", "rupee", "rupees", "rs"})
     IN IF IsSome(m) THEN Some(m[1].n) ELSE None,
     KwNum(t, {"budget"}, {"of", "is", "around"}) >>

wordToNumber(w) ==
  CASE w = "one" -> 1 [] w = "two" -> 2 [] w = "three" -> 3
    [] w = "four" -> 4 [] w = "five" -> 5 [] OTHER -> 0

bedroomPatterns(t) ==
  LET num(m) == IF IsSome(m) THEN Some(IF IsNum(m[1]) THEN m[1].n ELSE wordToNumber(m[1].w))
                ELSE None
  IN << num(BeforeKw(t, "digits", {"bed", "bedroom", "bhk", "br"})),
        num(BeforeKw(t, "digits", {"room"})),
        num(BeforeKw(t, "words", {"bed", "bedroom", "bhk"})) >>

locationGazetteer ==
  << "kathmandu", "lalitpur", "bhaktapur", "pokhara", "chitwan", "butwal",
     "thamel", "pulchowk", "kupondole", "baneshwor", "new road", "durbarmarg",
     "godawari", "patan", "boudha", "swayambhu", "balaju", "maharajgunj",
     "lazimpat", "naxal", "panipokhari", "sinamangal", "koteshwor", "un park" >>

propertyTypeMap ==
  << <<"apartment", "apartment">>, <<"flat", "apartment">>, <<"bhk", "apartment">>,
     <<"house", "house">>, <<"villa", "house">>, <<"bungalow", "house">>,
     <<"commercial", "commercial">>, <<"office", "commercial">>,
     <<"shop", "commercial">>, <<"restaurant", "commercial">>,
     <<"land", "land">>, <<"plot", "land">>, <<"studio", "apartment">>,
     <<"penthouse", "apartment">> >>

Words(t) == {t[i].w : i \in 1..Len(t)}

RECURSIVE MentionedLocations(_, _)
MentionedLocations(t, i) ==
  IF i > Len(locationGazetteer) THEN <<>>
  ELSE (IF locationGazetteer[i] \in Words(t) THEN <<locationGazetteer[i]>> ELSE <<>>)
       \o MentionedLocations(t, i + 1)

RECURSIVE MentionedTypes(_, _)
MentionedTypes(t, i) ==
  IF i > Len(propertyTypeMap) THEN <<>>
  ELSE (IF propertyTypeMap[i][1] \in Words(t) THEN <<propertyTypeMap[i][2]>> ELSE <<>>)
       \o MentionedTypes(t, i + 1)

(***************************************************************************)
(* UserPreferences and the updates extracted from a user message.          *)
(* A Partial<UserPreferences> is a record of optional fields.              *)
(***************************************************************************)
NoUpdates ==
  [priceRange |-> None, bedrooms |-> None, locations |-> None,
   propertyType |-> None, amenities |-> None, searchHistory |-> None]

HasUpdates(u) == \E k \in DOMAIN u : IsSome(u[k])

EmptyPreferences(id, userId, t) ==
  [id |-> id, userId |-> userId, propertyType |-> <<>>, priceRange |-> None,
   locations |-> <<>>, bedrooms |-> None, amenities |-> <<>>,
   searchHistory |-> <<>>, updatedAt |-> t]

\* the updates object built by MemoryManager.extractAndUpdatePreferences
ExtractedUpdates(prefs, text) ==
  LET t == Tokenize(text)
      budget == FirstMatch(budgetPatterns(t))
      beds == FirstMatch(bedroomPatterns(t))
      locs == MentionedLocations(t, 1)
      types == MentionedTypes(t, 1)
      family == Words(t) \cap {"couple", "family", "kids", "children"} # {}
  IN [priceRange |->
        IF IsSome(budget) /\ budget[1] > 1000
        THEN Some([min |-> IF IsSome(prefs.priceRange) THEN prefs.priceRange[1].min ELSE 0,
                   max |-> budget[1]])
        ELSE None,
      bedrooms |->
        IF IsSome(beds) /\ beds[1] > 0 /\ beds[1] <= 10 THEN beds ELSE None,
      locations |->
        IF Len(locs) > 0 THEN Some(Dedup(prefs.locations \o locs)) ELSE None,
      propertyType |->
        IF Len(types) > 0 THEN Some(Dedup(prefs.propertyType \o types)) ELSE None,
      amenities |->
        IF family /\ "family-friendly" \notin Range(prefs.amenities)
        THEN Some(Append(prefs.amenities, "family-friendly")) ELSE None,
      searchHistory |-> None]

\* { ...this.userPreferences, ...updates, updatedAt: Date.now() }
MergePreferences(prefs, u, t) ==
  [prefs EXCEPT
     !.priceRange = IF IsSome(u.priceRange) THEN u.priceRange ELSE @,
     !.bedrooms = IF IsSome(u.bedrooms) THEN u.bedrooms ELSE @,
     !.locations = IF IsSome(u.locations) THEN u.locations[1] ELSE @,
     !.propertyType = IF IsSome(u.propertyType) THEN u.propertyType[1] ELSE @,
     !.amenities = IF IsSome(u.amenities) THEN u.amenities[1] ELSE @,
     !.searchHistory = IF IsSome(u.searchHistory) THEN u.searchHistory[1] ELSE @,
     !.updatedAt = t]


(***************************************************************************)
(* The session / preferences store (blink.db): document rows whose nested  *)
(* values are JSON text.                                                   *)
(***************************************************************************)
SessionRow(sess) ==
  [id |-> sess.id, userId |-> sess.userId, title |-> sess.title,
   messages |-> Stringify(sess.messages), context |-> Stringify(sess.context),
   createdAt |-> sess.createdAt, updatedAt |-> sess.updatedAt]

\* list({ where: { userId }, orderBy: { updatedAt: 'desc' }, limit: 1 })
LatestSessionRows(rows, userId) ==
  LET mine == {r \in rows : r.userId = userId}
  IN {r \in mine : \A o \in mine : o.updatedAt <= r.updatedAt}

\* list({ where: { id }, limit: 1 })
SessionRowsById(rows, id) == {r \in rows : r.id = id}

\* an update guarded by a version check on updatedAt
DbUpdateSessionMutant(rows, row) ==
  IF \E r \in rows : r.id = row.id /\ r.updatedAt <= row.updatedAt
  THEN {r \in rows : r.id # row.id} \cup {row}
  ELSE rows

\* update(id, row): the row with that id is replaced; no row, nothing written
DbUpdateSession(rows, row) ==
  IF \E r \in rows : r.id = row.id
  THEN {r \in rows : r.id # row.id} \cup {row}
  ELSE rows

PrefsRow(prefs, t) ==
  [id |-> prefs.id, userId |-> prefs.userId,
   searchHistory |-> Stringify(prefs.searchHistory),
   propertyType |-> Stringify(prefs.propertyType),
   locations |-> Stringify(prefs.locations),
   amenities |-> Stringify(prefs.amenities),
   bedrooms |-> prefs.bedrooms,
   priceRangeMin |-> IF IsSome(prefs.priceRange) THEN Some(prefs.priceRange[1].min) ELSE None,
   priceRangeMax |-> IF IsSome(prefs.priceRange) THEN Some(prefs.priceRange[1].max) ELSE None,
   createdAt |-> t, updatedAt |-> t]

\* update(id, dbUpdates): only the fields named in updates, and updatedAt
DbUpdatePrefs(rows, prefs, u) ==
  {IF r.id # prefs.id THEN r
   ELSE [r EXCEPT
     !.updatedAt = prefs.updatedAt,
     !.propertyType = IF IsSome(u.propertyType) THEN Stringify(prefs.propertyType) ELSE @,
     !.priceRangeMin = IF IsSome(u.priceRange) THEN Some(prefs.priceRange[1].min) ELSE @,
     !.priceRangeMax = IF IsSome(u.priceRange) THEN Some(prefs.priceRange[1].max) ELSE @,
     !.locations = IF IsSome(u.locations) THEN Stringify(prefs.locations) ELSE @,
     !.bedrooms = IF IsSome(u.bedrooms) THEN prefs.bedrooms ELSE @,
     !.amenities = IF IsSome(u.amenities) THEN Stringify(prefs.amenities) ELSE @,
     !.searchHistory = IF IsSome(u.searchHistory) THEN Stringify(prefs.searchHistory) ELSE @]
   : r \in rows}

\* a falsy number (0, undefined) || 0
OrZero(o) == IF IsSome(o) THEN o[1] ELSE 0
Truthy(o) == IsSome(o) /\ o[1] # 0

\* the mapping of a preferences row to the interface format (loadUserPreferences)
PrefsFromRow(dbPref) ==
  [id |-> dbPref.id, userId |-> dbPref.userId,
   propertyType |-> parseJsonField(Returned(dbPref.propertyType)),
   priceRange |->
     IF Truthy(dbPref.priceRangeMin) \/ Truthy(dbPref.priceRangeMax)
     THEN Some([min |-> OrZero(dbPref.priceRangeMin), max |-> OrZero(dbPref.priceRangeMax)])
     ELSE None,
   locations |-> parseJsonField(Returned(dbPref.locations)),
   bedrooms |-> dbPref.bedrooms,
   amenities |-> parseJsonField(Returned(dbPref.amenities)),
   searchHistory |-> parseJsonField(Returned(dbPref.searchHistory)),
   updatedAt |-> dbPref.updatedAt]

(***************************************************************************)
(* MemoryManager.  Each method is an operator from the manager's state     *)
(*   m = [cs: currentSession, up: userPreferences, dbS, dbP]               *)
(* (and the outcome of the store calls it makes) to the state it leaves.   *)
(***************************************************************************)
Manager == [cs |-> currentSession, up |-> userPreferences, dbS |-> dbSessions, dbP |-> dbPrefs]

SetManager(m) ==
  /\ currentSession' = m.cs
  /\ userPreferences' = m.up
  /\ dbSessions' = m.dbS
  /\ dbPrefs' = m.dbP

SessionId(tag, t, r) == [tag |-> tag, t |-> t, r |-> r]
PrefId(tag, r, userId) == [tag |-> tag, r |-> r, userId |-> userId]

\* Outcomes of updateUserPreferences' store calls:
\*   "ok", "constraint" (NOT NULL constraint / no such rowid, recreate succeeds),
\*   "constraintCreateFails", "other"
UpdateOutcomes == {"ok", "constraint", "constraintCreateFails", "other"}

\* the rows updateUserPreferences hands to userPreferences.create (the recreate
\* after a 'NOT NULL constraint' / 'no such rowid' failure of the update)
RecreateRequestsMutant(m, updates, t, outcome) ==
  IF ~IsSome(m.up) \/ outcome = "ok" THEN <<>>
  ELSE <<PrefsRow(m.up[1], t)>>

RecreateRequests(m, updates, t, outcome) ==
  IF ~IsSome(m.up) THEN <<>>
  ELSE IF outcome \in {"constraint", "constraintCreateFails"}
  THEN <<PrefsRow(MergePreferences(m.up[1], updates, t), t)>>
  ELSE <<>>

\* create(row): a row with an id already in the table is rejected
DbCreatePrefs(rows, created) ==
  IF created = <<>> \/ \E r \in rows : r.id = created[1].id THEN rows
  ELSE rows \cup {created[1]}

updateUserPreferences(m, updates, t, outcome) ==
  IF ~IsSome(m.up) THEN m
  ELSE
    [m EXCEPT
       !.up = Some(MergePreferences(m.up[1], updates, t)),
       !.dbP =
         CASE outcome = "ok" -> DbUpdatePrefs(m.dbP, MergePreferences(m.up[1], updates, t), updates)
           [] outcome = "constraint" ->
                DbCreatePrefs(m.dbP, RecreateRequests(m, updates, t, outcome))
           [] OTHER -> m.dbP]

addToSearchHistoryMutant(m, query, t, outcome) ==
  IF ~IsSome(m.up) THEN m
  ELSE updateUserPreferences(m,
         [NoUpdates EXCEPT !.searchHistory =
            Some(JsSlice(Append(m.up[1].searchHistory, query), -(MaxSearchHistory + 1)))],
         t, outcome)

addToSearchHistory(m, query, t, outcome) ==
  IF ~IsSome(m.up) THEN m
  ELSE
    LET pushed == Append(m.up[1].searchHistory, query)
        kept == IF Len(pushed) > MaxSearchHistory
                THEN SubSeq(pushed, Len(pushed) - MaxSearchHistory + 1, Len(pushed))
                ELSE pushed
    IN updateUserPreferences(m, [NoUpdates EXCEPT !.searchHistory = Some(kept)], t, outcome)

extractAndUpdatePreferences(m, userMessage, t, outcome) ==
  IF ~IsSome(m.up) THEN m
  ELSE LET updates == ExtractedUpdates(m.up[1], userMessage)
       IN IF HasUpdates(updates) THEN updateUserPreferences(m, updates, t, outcome) ELSE m

trimMemoryIfNeeded(messages) ==
  IF Len(messages) > maxMessagesInMemory
  THEN LET systemMessages == SelectSeq(messages, IsSystem)
           otherMessages == SelectSeq(messages, NotSystem)
       IN systemMessages \o JsSlice(otherMessages, (-maxMessagesInMemory) + Len(systemMessages))
  ELSE messages

\* the loop of optimizeMessagesForContext over the reversed non-system messages:
\* i is the next one to look at (newest first), total the characters so far
RECURSIVE AddRecent(_, _, _, _)
AddRecent(other, i, total, acc) ==
  IF i = 0 THEN acc
  ELSE IF total + other[i].content.len > maxTokensEstimate * CharsPerToken THEN acc
  ELSE AddRecent(other, i - 1, total + other[i].content.len, <<other[i]>> \o acc)

optimizeMessagesForContextMutant(messages) ==
  SelectSeq(messages, NotSystem) \o SelectSeq(messages, IsSystem)

optimizeMessagesForContext(messages) ==
  LET systemMessages == SelectSeq(messages, IsSystem)
      otherMessages == SelectSeq(messages, NotSystem)
  IN AddRecent(otherMessages, Len(otherMessages), SumLen(systemMessages), systemMessages)

getConversationContext(m) ==
  IF ~IsSome(m.cs) THEN <<>> ELSE optimizeMessagesForContext(m.cs[1].messages)

persistSession(m, ok) ==
  IF ~IsSome(m.cs) \/ ~ok THEN m
  ELSE [m EXCEPT !.dbS = DbUpdateSession(m.dbS, SessionRow(m.cs[1]))]

NewMessage(message, t, r) ==
  [id |-> [t |-> t, r |-> r], role |-> message.role, content |-> message.content,
   timestamp |-> t, toolCalls |-> message.toolCalls]

\* the session persisted before it is trimmed
addMessageMutant(m, message, t, r, updOutcome, persistOk) ==
  LET pushed == [m.cs[1] EXCEPT
                   !.messages = Append(@, NewMessage(message, t, r)),
                   !.updatedAt = t,
                   !.context = [lastActivity |-> t]]
      m1 == [m EXCEPT !.cs = Some(pushed)]
      m2 == IF message.role = "user"
            THEN extractAndUpdatePreferences(m1, message.content, t, updOutcome)
            ELSE m1
      m3 == persistSession(m2, persistOk)
  IN [m3 EXCEPT !.cs = Some([m3.cs[1] EXCEPT !.messages = trimMemoryIfNeeded(@)])]

\* addMessage on an active session (the caller handles the throw when there is none)
addMessage(m, message, t, r, updOutcome, persistOk) ==
  LET pushed == [m.cs[1] EXCEPT
                   !.messages = Append(@, NewMessage(message, t, r)),
                   !.updatedAt = t,
                   !.context = [lastActivity |-> t]]
      m1 == [m EXCEPT !.cs = Some(pushed)]
      m2 == IF message.role = "user"
            THEN extractAndUpdatePreferences(m1, message.content, t, updOutcome)
            ELSE m1
      m3 == [m2 EXCEPT !.cs = Some([m2.cs[1] EXCEPT !.messages = trimMemoryIfNeeded(@)])]
  IN persistSession(m3, persistOk)

\* the guard placed after the extraction instead of first
addMessageResultMutant(m, message, t, r, updOutcome, persistOk) ==
  IF ~IsSome(m.cs)
  THEN [threw |-> TRUE,
        m |-> IF message.role = "user"
              THEN extractAndUpdatePreferences(m, message.content, t, updOutcome)
              ELSE m]
  ELSE [threw |-> FALSE, m |-> addMessage(m, message, t, r, updOutcome, persistOk)]

\* addMessage as its caller sees it: 'No active session' thrown, or the
\* manager after the call
addMessageResult(m, message, t, r, updOutcome, persistOk) ==
  IF ~IsSome(m.cs) THEN [threw |-> TRUE, m |-> m]
  ELSE [threw |-> FALSE, m |-> addMessage(m, message, t, r, updOutcome, persistOk)]


\* Store calls of initializeSession that may fail
InitFailures == {"none", "prefsList", "prefsCreate", "sessList", "sessCreate"}

FallbackPreferences(userId, t) == EmptyPreferences(PrefId("pref", 0, userId), userId, t)

\* prefRows: what userPreferences.list({ where: { userId }, limit: 1 }) returned
loadUserPreferences(m, userId, t, r, prefRows, fail) ==
  IF fail = "prefsList" THEN [m EXCEPT !.up = Some(FallbackPreferences(userId, t))]
  ELSE IF Len(prefRows) > 0 THEN [m EXCEPT !.up = Some(PrefsFromRow(prefRows[1]))]
  ELSE IF fail = "prefsCreate" THEN [m EXCEPT !.up = Some(FallbackPreferences(userId, t))]
  ELSE LET created == EmptyPreferences(PrefId("db", r, userId), userId, t)
       IN [m EXCEPT !.up = Some(created), !.dbP = @ \cup {PrefsRow(created, t)}]

NewSession(id, userId, title, t) ==
  [id |-> id, userId |-> userId, title |-> title, messages |-> <<>>,
   context |-> [lastActivity |-> t], createdAt |-> t, updatedAt |-> t]

\* returns the session; the create in the store may fail (logged, not raised)
createNewSession(userId, t, r) == NewSession(SessionId("session", t, r), userId, "New Property Search", t)

createFallbackSession(userId, t) ==
  NewSession(SessionId("fallback", t, 0), userId, "Property Search Session", t)

\* session.context.lastActivity of a row as list() returned it: a JSON text has
\* no such property (undefined), and Date.now() - undefined < oneHour is false
isRecentSession(row, t) ==
  LET context == Returned(row.context)
  IN IF context.isText THEN FALSE
     ELSE t - context.val.lastActivity < oneHour

SessionFromRow(dbSession) ==
  [id |-> dbSession.id, userId |-> dbSession.userId, title |-> dbSession.title,
   messages |-> parseJsonField(Returned(dbSession.messages)),
   context |-> parseJsonField(Returned(dbSession.context)),
   createdAt |-> dbSession.createdAt, updatedAt |-> dbSession.updatedAt]

\* [m: the manager afterwards, ret: the session returned to the caller]
initializeSession(m, userId, t, r, prefRows, sessRows, fail) ==
  LET m1 == loadUserPreferences(m, userId, t, r, prefRows, fail)
  IN IF fail = "sessList"
     THEN [m |-> m1, ret |-> createFallbackSession(userId, t)]
     ELSE IF Len(sessRows) > 0 /\ isRecentSession(sessRows[1], t)
     THEN LET sess == SessionFromRow(sessRows[1])
          IN [m |-> [m1 EXCEPT !.cs = Some(sess)], ret |-> sess]
     ELSE LET sess == createNewSession(userId, t, r)
          IN [m |-> [m1 EXCEPT !.cs = Some(sess),
                               !.dbS = IF fail = "sessCreate" THEN @
                                       ELSE @ \cup {SessionRow(sess)}],
              ret |-> sess]

\* loadSession(sessionId): the row found replaces the current session
loadSession(m, sessRows, ok) ==
  IF ok /\ Len(sessRows) > 0 THEN [m EXCEPT !.cs = Some(SessionFromRow(sessRows[1]))] ELSE m

\* a set as the sequences of at most one of its elements that list(limit 1) may return
Limit1(rows) == IF rows = {} THEN {<<>>} ELSE {<<r>> : r \in rows}


(***************************************************************************)
(* Initial values shared by the specifications, and the observation log.   *)
(***************************************************************************)
NoFallback == [open |-> FALSE, closed |-> FALSE, text |-> ""]

NoCall ==
  [query |-> Str(""), userId |-> None, lines |-> 0, currentStep |-> 0,
   finalAnswer |-> Str(""), needsClarification |-> FALSE, fallback |-> NoFallback,
   parsed |-> None]

\* What a run has done so far (read by the properties, never by the program)
NoLog ==
  [op |-> "", adds |-> 0, ticks |-> 0, inits |-> 0,
   preTrim |-> <<>>, ctx |-> <<>>, input |-> <<>>, allQueries |-> <<>>,
   threw |-> FALSE, prevInit |-> None, lastInit |-> None, tool |-> None,
   initFail |-> "none", pairs |-> 0, prevAction |-> FALSE, executed |-> <<>>,
   firstFinal |-> None, requests |-> <<>>,
   prefIds |-> {}, updates |-> 0, prefsBefore |-> None, update |-> None, creates |-> <<>>,
   managerBefore |-> None, loaded |-> None, lastWrite |-> None, env |-> None,
   own |-> <<>>,
   completions |-> 0, before |-> <<>>]

IdleAgent ==
  /\ callers = <<>>
  /\ pc = "idle"
  /\ call = NoCall
  /\ steps = <<>>
  /\ response = None

Users == {"u1", "u2"}
Roles == {"user", "assistant", "system"}

\* A message as it sits in a session that was stored earlier
StoredMessage(i, role, content) ==
  [id |-> [t |-> i, r |-> i], role |-> role, content |-> content,
   timestamp |-> i, toolCalls |-> <<>>]

RECURSIVE SeqsUpTo(_, _)
SeqsUpTo(S, n) ==
  IF n = 0 THEN {<<>>}
  ELSE LET shorter == SeqsUpTo(S, n - 1)
       IN shorter \cup {Append(q, x) : q \in {p \in shorter : Len(p) = n - 1}, x \in S}

(***************************************************************************)
(* SpecContext: getConversationContext on sessions of every shape          *)
(***************************************************************************)
CtxContents == {Text("short", 12000), Text("long", 20000)}
CtxKinds == Roles \X CtxContents

CtxSession(kinds) ==
  [NewSession(SessionId("session", 0, 0), "u1", "New Property Search", 0) EXCEPT
     !.messages = [i \in 1..Len(kinds) |-> StoredMessage(i, kinds[i][1], kinds[i][2])]]

InitContext ==
  /\ now = 0 /\ nextId = 1 /\ faults = 0 /\ storeFormat = "text"
  /\ \E kinds \in SeqsUpTo(CtxKinds, MaxCtxLen) :
       /\ currentSession = Some(CtxSession(kinds))
       /\ dbSessions = {SessionRow(CtxSession(kinds))}
  /\ userPreferences = None
  /\ dbPrefs = {}
  /\ IdleAgent
  /\ log = NoLog

GetConversationContext ==
  /\ log.op = ""
  /\ log' = [log EXCEPT !.op = "getConversationContext",
                        !.input = IF IsSome(currentSession) THEN currentSession[1].messages ELSE <<>>,
                        !.ctx = getConversationContext(Manager)]
  /\ UNCHANGED <<envVars, memVars, agentVars>>

NextContext == GetConversationContext
SpecContext == InitContext /\ [][NextContext]_vars

Budget == maxTokensEstimate * CharsPerToken
\* every element of a is an element of b
AllIn(a, b) == \A i \in 1..Len(a) : \E j \in 1..Len(b) : b[j] = a[i]

\* C3 (as claimed): the context's estimated token sum is at most 8000 and the
\* context contains every system-role message of the session.
C3_AsClaimed ==
  log.op = "getConversationContext" =>
    /\ SumLen(log.ctx) <= Budget
    /\ AllIn(SelectSeq(log.input, IsSystem), log.ctx)

\* C3 (amended): the context contains every system-role message of the session,
\* whatever their size, and only non-system messages are dropped for the budget:
\* the estimated token sum is at most 8000 whenever the system messages alone are
\* within 8000 tokens, and never more than max(8000, tokens of the system messages).
C3_ContextBudget ==
  log.op = "getConversationContext" =>
    LET sys == SelectSeq(log.input, IsSystem)
    IN /\ AllIn(sys, log.ctx)
       /\ AllIn(log.ctx, log.input)
       /\ SumLen(log.ctx) <= Max(Budget, SumLen(sys))
       /\ (SumLen(sys) <= Budget => SumLen(log.ctx) <= Budget)

C3_Witness ==
  /\ log.op = "getConversationContext"
  /\ SelectSeq(log.input, IsSystem) # <<>>
  /\ SelectSeq(log.ctx, NotSystem) # <<>>
  /\ Len(log.ctx) < Len(log.input)
  /\ SumLen(log.input) > Budget


(***************************************************************************)
(* SpecMemory: addMessage on a resumed session.  The session resumed is    *)
(* one that earlier calls left in the store: `total` messages of which the *)
(* first `sys` are system messages.                                        *)
(***************************************************************************)
PreloadShapes ==
  {<<0, 0>>} \cup
  {<<total, sys>> : total \in {maxMessagesInMemory - 1, maxMessagesInMemory},
                    sys \in {0, 1, maxMessagesInMemory - 1, maxMessagesInMemory}}

PreloadedSession(total, sys) ==
  [NewSession(SessionId("session", 0, 0), "u1", "New Property Search", 0) EXCEPT
     !.messages =
        [i \in 1..total |->
           StoredMessage(i, IF i <= sys THEN "system"
                            ELSE IF (i - sys) % 2 = 1 THEN "user" ELSE "assistant",
                         QPlain)],
     !.context = [lastActivity |-> total],
     !.updatedAt = total]

InitMemory ==
  /\ faults = 0 /\ storeFormat = "text"
  /\ \E shape \in PreloadShapes :
       /\ shape[2] <= shape[1]
       /\ now = shape[1]
       /\ nextId = shape[1] + 1
       /\ currentSession = Some(PreloadedSession(shape[1], shape[2]))
       /\ dbSessions = {SessionRow(PreloadedSession(shape[1], shape[2]))}
  /\ userPreferences = Some(EmptyPreferences(PrefId("db", 0, "u1"), "u1", 0))
  /\ dbPrefs = {PrefsRow(EmptyPreferences(PrefId("db", 0, "u1"), "u1", 0), 0)}
  /\ IdleAgent
  /\ log = NoLog

\* the failures a store call may be given: none, or one while the budget lasts
Failing(outcome, okValue) ==
  IF outcome = okValue THEN faults' = faults
  ELSE faults < MaxFaults /\ faults' = faults + 1

MessageInputs ==
  {[role |-> "user", content |-> QPlain, toolCalls |-> <<>>],
   [role |-> "user", content |-> QFamily, toolCalls |-> <<>>],
   [role |-> "assistant", content |-> QPlain, toolCalls |-> <<>>],
   [role |-> "system", content |-> QPlain, toolCalls |-> <<>>]}

\* await memoryManager.addMessage(message), dt milliseconds after the last call
AddMessage(message, dt, fail) ==
  /\ log.adds < MaxAdds
  /\ fail \in {"none", "update", "persist"}
  /\ Failing(fail, "none")
  /\ now' = now + dt
  /\ LET res == addMessageResult(Manager, message, now', nextId,
                                 IF fail = "update" THEN "other" ELSE "ok", fail # "persist")
     IN /\ res.threw => fail = "none"
        /\ nextId' = IF res.threw THEN nextId ELSE nextId + 1
        /\ SetManager(res.m)
        /\ log' = [log EXCEPT !.op = "addMessage", !.adds = @ + 1,
                              !.threw = res.threw,
                              !.prefsBefore = userPreferences,
                              !.managerBefore = Some(Manager),
                              !.preTrim = Append(IF IsSome(currentSession)
                                                 THEN currentSession[1].messages ELSE <<>>,
                                                 NewMessage(message, now', nextId))]
  /\ UNCHANGED <<storeFormat, callers, agentVars>>

NextMemory ==
  \E message \in MessageInputs, dt \in {0, 1}, fail \in {"none", "update", "persist"} :
    AddMessage(message, dt, fail)

SpecMemory == InitMemory /\ [][NextMemory]_vars

SessionMessages == IF IsSome(currentSession) THEN currentSession[1].messages ELSE <<>>

\* C4 (as claimed): after every addMessage the session holds at most 20 messages;
\* when the count exceeded 20, every system message is kept and exactly the most
\* recent (20 - systemCount) non-system messages are kept.
C4_TrimTo20 ==
  log.op = "addMessage" =>
    LET sys == SelectSeq(log.preTrim, IsSystem)
        other == SelectSeq(log.preTrim, NotSystem)
        keep == Max(maxMessagesInMemory - Len(sys), 0)
    IN /\ Len(SessionMessages) <= maxMessagesInMemory
       /\ Len(log.preTrim) > maxMessagesInMemory =>
            /\ SelectSeq(SessionMessages, IsSystem) = sys
            /\ SelectSeq(SessionMessages, NotSystem) =
                 SubSeq(other, Len(other) - Min(keep, Len(other)) + 1, Len(other))

\* C5 (as claimed): the messages of the session are in insertion order, with
\* non-decreasing timestamps.
C5_InsertionOrder ==
  \A i, j \in 1..Len(SessionMessages) :
    i < j => /\ SessionMessages[i].id.r < SessionMessages[j].id.r
             /\ SessionMessages[i].timestamp <= SessionMessages[j].timestamp

(***************************************************************************)
(* SpecHistory: addToSearchHistory on preferences whose history earlier    *)
(* calls filled (alternating two queries).                                 *)
(***************************************************************************)
Queries == {QPlain, QFlat}
PreloadedHistory(n) == [i \in 1..n |-> IF i % 2 = 1 THEN QPlain.text ELSE QFlat.text]
HistoryPreloads == {0, MaxSearchHistory - 2, MaxSearchHistory - 1, MaxSearchHistory}

InitHistory ==
  /\ now = 0 /\ nextId = 1 /\ faults = 0 /\ storeFormat = "text"
  /\ currentSession = None
  /\ dbSessions = {}
  /\ \E n \in HistoryPreloads :
       LET prefs == [EmptyPreferences(PrefId("db", 0, "u1"), "u1", 0) EXCEPT
                       !.searchHistory = PreloadedHistory(n)]
       IN /\ userPreferences = Some(prefs)
          /\ dbPrefs = {PrefsRow(prefs, 0)}
          /\ log = [NoLog EXCEPT !.allQueries = PreloadedHistory(n)]
  /\ IdleAgent

\* await memoryManager.addToSearchHistory(query)
AddToSearchHistory(query, outcome) ==
  /\ log.adds < MaxHistCalls
  /\ Failing(outcome, "ok")
  /\ SetManager(addToSearchHistory(Manager, query.text, now, outcome))
  /\ log' = [log EXCEPT !.op = "addToSearchHistory", !.adds = @ + 1,
                        !.allQueries = Append(@, query.text)]
  /\ UNCHANGED <<now, nextId, storeFormat, callers, agentVars>>

NextHistory == \E query \in Queries, outcome \in UpdateOutcomes : AddToSearchHistory(query, outcome)

SpecHistory == InitHistory /\ [][NextHistory]_vars

SearchHistory == IF IsSome(userPreferences) THEN userPreferences[1].searchHistory ELSE <<>>

\* C6: searchHistory has at most 50 entries and equals the last min(50, total)
\* queries in call order; a query given twice is stored twice (no deduplication).
C6_SearchHistoryFifo ==
  LET total == Len(log.allQueries)
      kept == Min(MaxSearchHistory, total)
  IN /\ Len(SearchHistory) <= MaxSearchHistory
     /\ SearchHistory = SubSeq(log.allQueries, total - kept + 1, total)

C6_Witness ==
  /\ log.op = "addToSearchHistory"
  /\ Len(log.allQueries) > MaxSearchHistory
  /\ Len(SearchHistory) = MaxSearchHistory
  /\ SearchHistory[MaxSearchHistory] = SearchHistory[MaxSearchHistory - 1]


(***************************************************************************)
(* ReActTools: the tool registry.  A ToolResult is                         *)
(*   [success, data, error]  with error optional (absent on success);      *)
(* data is a record with a `kind`, NullData for null.  The collaborators   *)
(* (web search, maps function, completion provider) answer or throw.       *)
(***************************************************************************)
NullData == [kind |-> "null"]

\* what a collaborator threw: an Error with a message, or another value
Thrown == {[isError |-> TRUE, message |-> "timeout"], [isError |-> TRUE, message |-> ""],
           [isError |-> FALSE, message |-> ""]}
\* error instanceof Error ? error.message : fallback
MessageOf(error, fallback) == IF error.isError THEN error.message ELSE fallback

FailureMutant(text) == [success |-> FALSE, data |-> [kind |-> "partial"], error |-> None]
Failure(text) == [success |-> FALSE, data |-> NullData, error |-> Some(text)]
Success(data) == [success |-> TRUE, data |-> data, error |-> None]

\* env: how the collaborators answer during one tool call
Envs ==
  [search : {"ok", "throw"}, maps : {"ok", "notOk", "throw"},
   generateObject : {"ok", "throw"}, generateText : {"ok", "throw"}, thrown : Thrown]
GoodEnv ==
  [search |-> "ok", maps |-> "ok", generateObject |-> "ok", generateText |-> "ok",
   thrown |-> [isError |-> TRUE, message |-> "timeout"]]
EnvFaults(env) ==
  (IF env.search = "ok" THEN 0 ELSE 1) + (IF env.maps = "ok" THEN 0 ELSE 1)
  + (IF env.generateObject = "ok" THEN 0 ELSE 1) + (IF env.generateText = "ok" THEN 0 ELSE 1)

search(query, env) ==
  IF env.search = "ok"
  THEN Success([kind |-> "search", query |-> query])
  ELSE Failure("Search failed: " \o MessageOf(env.thrown, "Unknown error"))

\* the catch returning a failure instead of the placeholder payload
mapsMutant(query, env) ==
  IF env.maps = "ok"
  THEN Success([kind |-> "maps", query |-> query])
  ELSE Failure("Maps failed: " \o MessageOf(env.thrown, "Unknown error"))

maps(query, env) ==
  IF env.maps = "ok"
  THEN Success([kind |-> "maps", query |-> query])
  ELSE Success([kind |-> "mapsMock", query |-> query,
                name |-> IF Includes(query.text, "Kathmandu")
                         THEN "Kathmandu Valley" ELSE "Nepal Location"])

Numbers(t) == SelectSeq(t, IsNum)
Operators == {"+", "-", "*", "/"}

\* a result is the fraction num / den; den = 0 is Infinity or NaN (not finite)
Fraction(num, den) == [num |-> num, den |-> den]
Greater(result, k) == result.num > k * result.den

\* the bands with inclusive thresholds
interpretCalculationResultMutant(result, type) ==
  CASE type = "roi" ->
         IF ~Greater(Fraction(20 * result.den, 1), result.num) THEN "Excellent ROI - Very attractive investment"
         ELSE IF ~Greater(Fraction(15 * result.den, 1), result.num) THEN "Good ROI - Solid investment opportunity"
         ELSE IF ~Greater(Fraction(10 * result.den, 1), result.num) THEN "Moderate ROI - Acceptable investment"
         ELSE IF ~Greater(Fraction(5 * result.den, 1), result.num) THEN "Low ROI - Consider other options"
         ELSE "Poor ROI - Not recommended"
    [] OTHER -> "Calculation completed successfully"

interpretCalculationResult(result, type) ==
  CASE type = "roi" ->
         IF Greater(result, 20) THEN "Excellent ROI - Very attractive investment"
         ELSE IF Greater(result, 15) THEN "Good ROI - Solid investment opportunity"
         ELSE IF Greater(result, 10) THEN "Moderate ROI - Acceptable investment"
         ELSE IF Greater(result, 5) THEN "Low ROI - Consider other options"
         ELSE "Poor ROI - Not recommended"
    [] type = "rental_yield" ->
         IF Greater(result, 8) THEN "Excellent rental yield - Very profitable"
         ELSE IF Greater(result, 6) THEN "Good rental yield - Profitable investment"
         ELSE IF Greater(result, 4) THEN "Moderate rental yield - Average returns"
         ELSE IF Greater(result, 2) THEN "Low rental yield - Below market average"
         ELSE "Poor rental yield - Consider other investments"
    [] OTHER -> "Calculation completed successfully"

\* new Function(`return ${sanitizedExpression}`)() on the digits and operators
\* left by the sanitizer: a number, a binary operation, nothing (undefined)
\* or a SyntaxError
BasicEval(t) ==
  LET kept == SelectSeq(t, LAMBDA tok : IsNum(tok) \/ tok.w \in Operators)
  IN CASE kept = <<>> -> [threw |-> "Invalid calculation result", result |-> Fraction(0, 0)]
       [] Len(kept) = 1 /\ IsNum(kept[1]) -> [threw |-> "", result |-> Fraction(kept[1].n, 1)]
       [] Len(kept) = 3 /\ IsNum(kept[1]) /\ ~IsNum(kept[2]) /\ IsNum(kept[3]) ->
            [threw |-> "",
             result |-> CASE kept[2].w = "+" -> Fraction(kept[1].n + kept[3].n, 1)
                          [] kept[2].w = "-" -> Fraction(kept[1].n - kept[3].n, 1)
                          [] kept[2].w = "*" -> Fraction(kept[1].n * kept[3].n, 1)
                          [] OTHER -> Fraction(kept[1].n, kept[3].n)]
       [] OTHER -> [threw |-> "Unexpected number", result |-> Fraction(0, 0)]

calculator(expression) ==
  LET t == Tokenize(expression)
      nums == Numbers(t)
      type == IF "roi" \in Words(t) THEN "roi"
              ELSE IF \E i \in 1..(Len(t) - 1) : t[i].w = "rental" /\ t[i + 1].w = "yield"
                   THEN "rental_yield" ELSE "basic"
      eval ==
        CASE type = "roi" ->
               IF Len(nums) >= 2
               THEN [threw |-> "", result |-> Fraction((nums[1].n - nums[2].n) * 100, nums[2].n)]
               ELSE [threw |-> "ROI calculation requires gain and cost values",
                     result |-> Fraction(0, 0)]
          [] type = "rental_yield" ->
               IF Len(nums) >= 2
               THEN [threw |-> "", result |-> Fraction(nums[1].n * 100, nums[2].n)]
               ELSE [threw |-> "Rental yield calculation requires annual rent and property value",
                     result |-> Fraction(0, 0)]
          [] OTHER -> BasicEval(t)
      threw == IF eval.threw # "" THEN eval.threw
               ELSE IF eval.result.den = 0 THEN "Invalid calculation result" ELSE ""
  IN IF threw # "" THEN Failure("Calculation failed: " \o threw)
     ELSE Success([kind |-> "calculation", expression |-> expression, result |-> eval.result,
                   calculation_type |-> type,
                   interpretation |-> interpretCalculationResult(eval.result, type)])

marketAnalysis(topic, env) ==
  IF env.generateObject = "ok" THEN Success([kind |-> "analysis", topic |-> topic])
  ELSE IF env.generateText = "ok" THEN Success([kind |-> "analysisText", topic |-> topic])
  ELSE Failure("Market analysis failed: " \o MessageOf(env.thrown, "Analysis unavailable"))

clarify(question) == Success([kind |-> "clarification", question |-> question])


\* the listings of propertyDatabase: price, bedrooms, the words of the location,
\* the property-type words of the title, match_score (in hundredths)
mockProperties ==
  << [id |-> "1", price |-> 32000, priceType |-> "rent", bedrooms |-> 2,
      location |-> {"kupondole", "lalitpur"}, title |-> {"apartment"}, match_score |-> 95],
     [id |-> "2", price |-> 35000, priceType |-> "rent", bedrooms |-> 2,
      location |-> {"pulchowk", "lalitpur"}, title |-> {"flat"}, match_score |-> 88],
     [id |-> "3", price |-> 45000, priceType |-> "rent", bedrooms |-> 3,
      location |-> {"baneshwor", "kathmandu"}, title |-> {"house"}, match_score |-> 82],
     [id |-> "4", price |-> 80000, priceType |-> "rent", bedrooms |-> 0,
      location |-> {"thamel", "kathmandu"}, title |-> {"commercial"}, match_score |-> 90],
     [id |-> "5", price |-> 15000000, priceType |-> "sale", bedrooms |-> 0,
      location |-> {"godawari", "lalitpur"}, title |-> {"land"}, match_score |-> 85] >>

Currency == {"npr", "rupee", "rupees", "rs"}
\* words that end in a preposition of the location pattern (it is not anchored
\* at a word boundary)
PrepositionEnding == {"in", "at", "near", "around", "flat"}

Leftmost(hits) == CHOOSE j \in hits : \A k \in hits : j <= k

\* a number, an optional "- number", at position i; [min, max (optional), next]
RangeAt(t, i) ==
  IF i + 2 <= Len(t) /\ t[i + 1].w = "-" /\ IsNum(t[i + 2])
  THEN [min |-> t[i].n, max |-> Some(t[i + 2].n), next |-> i + 3]
  ELSE [min |-> t[i].n, max |-> None, next |-> i + 1]

\* budget (of)? (NPR)? number (- number)? : where the number stands after "budget" at i
BudgetNumberAt(t, i) ==
  LET a == IF i + 1 <= Len(t) /\ t[i + 1].w = "of" THEN i + 2 ELSE i + 1
  IN IF a <= Len(t) /\ t[a].w = "npr" THEN a + 1 ELSE a

\* number (- number)? followed by NPR | rupees | rs : the range is tried first
PriceMatch(t) ==
  LET priceHits == {i \in 1..Len(t) : IsNum(t[i]) /\
                      \/ (RangeAt(t, i).next <= Len(t) /\ t[RangeAt(t, i).next].w \in Currency)
                      \/ (i + 1 <= Len(t) /\ t[i + 1].w \in Currency)}
  IN IF priceHits = {} THEN None
     ELSE LET i == Leftmost(priceHits)
          IN IF RangeAt(t, i).next <= Len(t) /\ t[RangeAt(t, i).next].w \in Currency
             THEN Some(RangeAt(t, i))
             ELSE Some([min |-> t[i].n, max |-> None, next |-> i + 1])

BudgetMatch(t) ==
  LET budgetHits == {i \in 1..Len(t) : t[i].w = "budget" /\ BudgetNumberAt(t, i) <= Len(t)
                                       /\ IsNum(t[BudgetNumberAt(t, i)])}
  IN IF budgetHits = {} THEN None
     ELSE Some(RangeAt(t, BudgetNumberAt(t, Leftmost(budgetHits))))

LocationMatch(t) ==
  LET locationHits == {i \in 1..(Len(t) - 1) :
                         t[i].w \in PrepositionEnding /\ ~IsNum(t[i + 1])}
  IN IF locationHits = {} THEN None ELSE Some(t[Leftmost(locationHits) + 1].w)

\* the criteria object built from the matches of the patterns
Criteria(t, words, price, budget, bedroom, location) ==
  [minPrice |-> IF IsSome(budget) THEN Some(budget[1].min)
                ELSE IF IsSome(price) THEN Some(price[1].min) ELSE None,
   maxPrice |-> IF IsSome(budget) /\ IsSome(budget[1].max) THEN budget[1].max
                ELSE IF IsSome(price) THEN price[1].max ELSE None,
   bedrooms |-> IF IsSome(bedroom) THEN Some(bedroom[1].n) ELSE None,
   location |-> location,
   propertyType |->
     IF "commercial" \in words THEN Some("commercial")
     ELSE IF "land" \in words THEN Some("land")
     ELSE IF "house" \in words THEN Some("house")
     ELSE IF "apartment" \in words \/ "flat" \in words THEN Some("apartment")
     ELSE None,
   priceType |->
     IF (\E i \in 1..(Len(t) - 1) : t[i].w = "for" /\ t[i + 1].w = "rent") \/ "rental" \in words
     THEN Some("rent")
     ELSE IF (\E i \in 1..(Len(t) - 1) : t[i].w = "for" /\ t[i + 1].w = "sale") \/ "buy" \in words
     THEN Some("sale")
     ELSE None]

ParseTokens(t) ==
  Criteria(t, Words(t), PriceMatch(t), BudgetMatch(t),
           BeforeKw(t, "digits", {"bhk", "bedroom", "br", "bed"}), LocationMatch(t))

parsePropertyQuery(query) == ParseTokens(Tokenize(query))

Matches(prop, c) ==
  /\ ~(Truthy(c.maxPrice) /\ prop.price > c.maxPrice[1])
  /\ ~(Truthy(c.minPrice) /\ prop.price < c.minPrice[1])
  /\ ~(Truthy(c.bedrooms) /\ prop.bedrooms # c.bedrooms[1])
  /\ ~(IsSome(c.location) /\ c.location[1] \notin prop.location)
  /\ ~(c.propertyType = Some("commercial") /\ "commercial" \notin prop.title)
  /\ ~(c.propertyType = Some("land") /\ "land" \notin prop.title)
  /\ ~(c.propertyType = Some("house") /\ "house" \notin prop.title)
  /\ ~(c.propertyType = Some("apartment") /\ prop.title \cap {"apartment", "flat"} = {})
  /\ ~(IsSome(c.priceType) /\ prop.priceType # c.priceType[1])

\* Array.prototype.sort by descending match_score (stable): insertion into place
RECURSIVE SortByScore(_)
SortByScore(props) ==
  IF props = <<>> THEN <<>>
  ELSE LET rest == SortByScore(Tail(props))
           before == SelectSeq(rest, LAMBDA q : q.match_score > props[1].match_score)
           after == SelectSeq(rest, LAMBDA q : q.match_score <= props[1].match_score)
       IN before \o <<props[1]>> \o after

\* the response object of the property search
PropertyListing(query, searchCriteria, filteredProperties) ==
  Success([kind |-> "properties", query |-> query,
           total_found |-> Len(filteredProperties),
           properties |-> SubSeq(filteredProperties, 1, Min(10, Len(filteredProperties))),
           search_criteria |-> searchCriteria])

FilterAndSort(query, searchCriteria) ==
  PropertyListing(query, searchCriteria,
    SortByScore(SelectSeq(mockProperties, LAMBDA prop : Matches(prop, searchCriteria))))

propertyDatabase(query) == FilterAndSort(query, parsePropertyQuery(query))

(***************************************************************************)
(* The dispatcher (ReActAgent.executeToolAsync) on a tool name and input   *)
(***************************************************************************)
\* String.prototype.toLowerCase on the tool names the model may write
LowerCase(name) ==
  CASE name = "Search" -> "search" [] name = "Maps" -> "maps"
    [] name = "Calculator" -> "calculator" [] name = "MarketAnalysis" -> "marketanalysis"
    [] name = "PropertyDatabase" -> "propertydatabase" [] name = "Clarify" -> "clarify"
    [] name = "CLARIFY" -> "clarify"
    [] OTHER -> name

ExecuteTool(actionName, actionInput, env) ==
  LET name == LowerCase(actionName)
  IN CASE name = "search" -> search(actionInput, env)
       [] name = "maps" -> maps(actionInput, env)
       [] name = "calculator" -> calculator(actionInput)
       [] name = "marketanalysis" -> marketAnalysis(actionInput, env)
       [] name = "propertydatabase" -> propertyDatabase(actionInput)
       [] name = "clarify" -> clarify(actionInput)
       [] OTHER -> Failure("Unknown tool: " \o actionName)

(***************************************************************************)
(* SpecTools: the dispatcher on every tool name, input and collaborator    *)
(* behaviour                                                               *)
(***************************************************************************)
ToolNames == {"Search", "Maps", "Calculator", "MarketAnalysis", "PropertyDatabase",
              "Clarify", "CLARIFY", "Zillow", "search "}
ToolInputs == {QPlain, QFlat, QRoi, QRoiZero, QRoiOne, QYield, QSum, QDivZero, QRent}

InitTools ==
  /\ now = 0 /\ nextId = 1 /\ faults = 0 /\ storeFormat = "text"
  /\ currentSession = None /\ userPreferences = None
  /\ dbSessions = {} /\ dbPrefs = {}
  /\ IdleAgent
  /\ log = NoLog

\* one tool call of the dispatcher
DispatchTool(name, input, env) ==
  /\ log.op = ""
  /\ log' = [log EXCEPT !.op = "executeTool",
                        !.input = <<name, input.text>>,
                        !.env = Some(env),
                        !.tool = Some(ExecuteTool(name, input, env))]
  /\ UNCHANGED <<envVars, memVars, agentVars>>

NextTools == \E name \in ToolNames, input \in ToolInputs, env \in Envs : DispatchTool(name, input, env)

SpecTools == InitTools /\ [][NextTools]_vars

\* C7: every ToolResult with success = false has data = null and a non-empty
\* error string.
C7_FailureEnvelope ==
  IsSome(log.tool) =>
    (~log.tool[1].success =>
       /\ log.tool[1].data = NullData
       /\ IsSome(log.tool[1].error)
       /\ log.tool[1].error[1] # "")

C7_Witness ==
  /\ IsSome(log.tool)
  /\ ~log.tool[1].success
  /\ log.input[1] = "Calculator"


(***************************************************************************)
(* ReActAgent: the trace parser and processQuery.                          *)
(* A line of the completion is [label, rest]: the label it starts with     *)
(* ("" when none) and the trimmed text after it; the blank line is         *)
(* [label |-> "", rest |-> Empty].                                         *)
(***************************************************************************)
Apology == Str("I apologize, but I encountered an error while processing your request. Please try rephrasing your question or being more specific about what you're looking for.")
NeedMoreInformation == Str("I need more information to provide a helpful response.")

AnswerPlain == Str("Here are two flats in Kathmandu.")
AnswerClarify == Str("Could you tell me your budget?")
ModelGuess == Str("[Tool result will be inserted here]")

DetailPhrases ==
  {"could you", "please tell me", "what kind of", "more details", "help me", "tell me more"}

\* finalAnswer.includes('?') and the six request-for-detail phrases
IncludesQuestionMark(text) == Includes(text.text, "?")
IncludesDetailPhrase(text) == \E p \in DetailPhrases : Includes(toLowerCase(text.text), p)

Line(label, rest) == [label |-> label, rest |-> rest]
BlankLine == Line("", Empty)
IsBlank(line) == line.label = "" /\ line.rest = Empty
\* the text of the line as the model wrote it
RawLine(line) ==
  IF line.rest = Empty THEN line.label
  ELSE IF line.label = "" THEN line.rest.text
  ELSE line.label \o " " \o line.rest.text

ThoughtStep(text) ==
  [type |-> "thought", content |-> text.text, actionName |-> None,
   actionInput |-> None, toolResult |-> None]
ActionStep(name) ==
  [type |-> "action", content |-> "Action: " \o name, actionName |-> Some(name),
   actionInput |-> None, toolResult |-> None]
ObservationStep(result) ==
  [type |-> "observation",
   content |-> IF result.success
               THEN "Tool executed successfully. Result: " \o result.data.kind
               ELSE "Tool execution failed: " \o (IF IsSome(result.error) THEN result.error[1]
                                                   ELSE "undefined"),
   actionName |-> None, actionInput |-> None, toolResult |-> Some(result)]

\* the requests to blink.ai that one dispatch of the tool issues
ProviderRequestsMutant(actionName, env) == <<>>

ProviderRequests(actionName, env) ==
  IF LowerCase(actionName) = "marketanalysis"
  THEN IF env.generateObject = "ok" THEN <<"generateObject">>
       ELSE <<"generateObject", "generateText">>
  ELSE <<>>

\* the result is attached to the action step and an observation step is pushed
Observed(stepsNow, i, result) ==
  Append([stepsNow EXCEPT ![i].toolResult = Some(result)], ObservationStep(result))

executeToolAsyncMutant(stepsNow, i, env) ==
  IF stepsNow[i].actionName[1] = "" \/ stepsNow[i].actionInput[1] = Empty THEN stepsNow
  ELSE [stepsNow EXCEPT ![i].toolResult =
          Some(ExecuteTool(stepsNow[i].actionName[1], stepsNow[i].actionInput[1], env))]

\* executeToolAsync(step) where step is stepsNow[i]: the steps afterwards
executeToolAsync(stepsNow, i, env) ==
  IF stepsNow[i].actionName[1] = "" \/ stepsNow[i].actionInput[1] = Empty THEN stepsNow
  ELSE Observed(stepsNow, i, ExecuteTool(stepsNow[i].actionName[1], stepsNow[i].actionInput[1], env))

\* the regular expression /Final Answer:\s*([\s\S]+?)(?:\n\n|\n$|$)/i followed
\* line by line: open at the first "Final Answer:" line, closed by a blank line
\* once some text is captured
FallbackAfter(f, line) ==
  IF f.closed THEN f
  ELSE IF ~f.open
       THEN IF line.label = "Final Answer:"
            THEN [open |-> TRUE, closed |-> FALSE, text |-> line.rest.text] ELSE f
  ELSE IF IsBlank(line)
       THEN IF f.text = "" THEN f ELSE [f EXCEPT !.closed = TRUE]
  ELSE [f EXCEPT !.text = IF @ = "" THEN RawLine(line) ELSE @ \o "\n" \o RawLine(line)]

\* one turn of the loop of parseReActResponse: [steps, call] afterwards
ParseLineResult(stepsNow, c, line, env) ==
  LET c1 == [c EXCEPT !.lines = @ + 1, !.fallback = FallbackAfter(@, line)]
  IN CASE IsBlank(line) -> [steps |-> stepsNow, call |-> c1]
       [] line.label = "Thought:" ->
            [steps |-> Append(stepsNow, ThoughtStep(line.rest)), call |-> c1]
       [] line.label = "Action:" ->
            [steps |-> Append(stepsNow, ActionStep(line.rest.text)),
             call |-> [c1 EXCEPT !.currentStep = Len(stepsNow) + 1]]
       [] line.label = "Action Input:" ->
            IF c.currentStep # 0
            THEN [steps |-> executeToolAsync(
                              [stepsNow EXCEPT
                                 ![c.currentStep].actionInput = Some(line.rest),
                                 ![c.currentStep].content = @ \o "\nAction Input: " \o line.rest.text],
                              c.currentStep, env),
                  call |-> c1]
            ELSE [steps |-> stepsNow, call |-> c1]
       [] line.label = "Final Answer:" ->
            [steps |-> stepsNow,
             call |-> [c1 EXCEPT
                         !.finalAnswer = line.rest,
                         !.needsClarification =
                            @ \/ (IncludesQuestionMark(line.rest) /\ IncludesDetailPhrase(line.rest))]]
       [] OTHER -> [steps |-> stepsNow, call |-> c1]

\* the return without the default for an empty final answer
ParsedResponseMutant(stepsNow, c) ==
  [steps |-> stepsNow,
   finalAnswer |-> IF c.finalAnswer # Empty THEN c.finalAnswer
                   ELSE IF c.fallback.open THEN Str(c.fallback.text)
                   ELSE Empty,
   isComplete |-> TRUE,
   needsClarification |-> c.needsClarification]

\* the return of parseReActResponse
ParsedResponse(stepsNow, c) ==
  LET finalAnswer == IF c.finalAnswer # Empty THEN c.finalAnswer
                     ELSE IF c.fallback.open THEN Str(c.fallback.text)
                     ELSE Empty
  IN [steps |-> stepsNow,
      finalAnswer |-> IF finalAnswer # Empty THEN finalAnswer ELSE NeedMoreInformation,
      isComplete |-> TRUE,
      needsClarification |-> c.needsClarification]

\* the catch of processQuery
CaughtResponseMutant(stepsNow) ==
  [steps |-> <<>>, finalAnswer |-> Apology, isComplete |-> FALSE, needsClarification |-> FALSE]

CaughtResponse(stepsNow) ==
  [steps |-> stepsNow, finalAnswer |-> Apology, isComplete |-> TRUE, needsClarification |-> FALSE]

\* metadata.toolCalls of the assistant message
ToolCalls(stepsNow) ==
  LET actions == SelectSeq(stepsNow, LAMBDA st : st.type = "action")
  IN [i \in 1..Len(actions) |->
        [name |-> actions[i].actionName, input |-> actions[i].actionInput,
         result |-> actions[i].toolResult]]


(***************************************************************************)
(* SpecAgent: one processQuery(userQuery, userId?) on the shared agent and *)
(* memory manager, step by step (each await is a step).                    *)
(***************************************************************************)
\* the manager before the call: fresh, or left by an earlier call of user u1
\* whose session (two messages) was active `age` milliseconds ago
EarlierSession(t) ==
  [NewSession(SessionId("session", t, 0), "u1", "New Property Search", t) EXCEPT
     !.messages = <<StoredMessage(t, "user", QPlain), StoredMessage(t, "assistant", AnswerPlain)>>]

InitAgent ==
  /\ nextId = 1 /\ faults = 0
  /\ storeFormat \in {"text", "object"}
  /\ now = oneMinute
  /\ \/ /\ currentSession = None /\ userPreferences = None
        /\ dbSessions = {} /\ dbPrefs = {}
     \/ /\ currentSession = Some(EarlierSession(0))
        /\ userPreferences = Some(EmptyPreferences(PrefId("db", 0, "u1"), "u1", 0))
        /\ dbSessions = {SessionRow(EarlierSession(0))}
        /\ dbPrefs = {PrefsRow(EmptyPreferences(PrefId("db", 0, "u1"), "u1", 0), 0)}
  /\ IdleAgent
  /\ log = NoLog

\* processQuery is entered: this.steps = []
ProcessQuery(query, userId) ==
  /\ pc = "idle" /\ log.op = ""
  /\ steps' = <<>>
  /\ call' = [NoCall EXCEPT !.query = query, !.userId = userId]
  /\ pc' = IF IsSome(userId) THEN "initializeSession" ELSE "generateText"
  /\ response' = None
  /\ log' = [log EXCEPT !.op = "processQuery", !.before = SessionMessages, !.own = <<>>]
  /\ UNCHANGED <<envVars, memVars>>

\* await memoryManager.initializeSession(userId)
InitializeSessionStep(fail, prefRows, sessRows) ==
  /\ pc = "initializeSession"
  /\ Failing(fail, "none")
  /\ LET r == initializeSession(Manager, call.userId[1], now, nextId, prefRows, sessRows, fail)
     IN /\ SetManager(r.m)
        /\ log' = [log EXCEPT !.initFail = fail, !.lastInit = Some(r.ret),
                              !.before = IF IsSome(r.m.cs) THEN r.m.cs[1].messages ELSE <<>>]
  /\ nextId' = nextId + 1
  /\ pc' = "addToSearchHistory"
  /\ UNCHANGED <<now, storeFormat, callers, call, steps, response>>

\* await memoryManager.addToSearchHistory(userQuery)
AddToSearchHistoryStep(outcome) ==
  /\ pc = "addToSearchHistory"
  /\ Failing(outcome, "ok")
  /\ SetManager(addToSearchHistory(Manager, call.query.text, now, outcome))
  /\ pc' = "generateText"
  /\ UNCHANGED <<now, nextId, storeFormat, callers, call, steps, response, log>>

\* the catch block of processQuery
Caught ==
  /\ response' = Some(CaughtResponse(steps))
  /\ pc' = "done"
  /\ log' = [log EXCEPT !.threw = TRUE]

\* runReActLoop up to the completion: blink.ai.generateText answers or throws
GenerateText(outcome) ==
  /\ pc = "generateText"
  /\ Failing(outcome, "ok")
  /\ IF outcome = "ok"
     THEN /\ pc' = "parse"
          /\ log' = [log EXCEPT !.completions = @ + 1, !.requests = Append(@, "completion")]
          /\ UNCHANGED response
     ELSE /\ response' = Some(CaughtResponse(steps))
          /\ pc' = "done"
          /\ log' = [log EXCEPT !.threw = TRUE, !.completions = @ + 1,
                                !.requests = Append(@, "completion")]
  /\ UNCHANGED <<now, nextId, storeFormat, callers, memVars, call, steps>>

CompletionLines ==
  {Line("Thought:", Str("The user wants a flat.")),
   Line("Action:", Str("Search")),
   Line("Action Input:", Empty), Line("Action Input:", QFlat),
   Line("Observation:", ModelGuess),
   Line("Final Answer:", Empty), Line("Final Answer:", AnswerPlain),
   Line("Final Answer:", AnswerClarify),
   BlankLine}

AgentEnvs == {GoodEnv, [GoodEnv EXCEPT !.search = "throw"]}

\* the number of tool calls the dispatcher really makes for this line
Dispatches(line) ==
  IF /\ line.label = "Action Input:" /\ call.currentStep # 0
     /\ steps[call.currentStep].actionName[1] # "" /\ line.rest # Empty
  THEN 1 ELSE 0

\* one line of the completion goes through the loop of parseReActResponse
ParseLine(line, env) ==
  /\ pc = "parse"
  /\ Failing(IF Dispatches(line) = 1 THEN EnvFaults(env) ELSE 0, 0)
  /\ Dispatches(line) = 0 => env = GoodEnv
  /\ LET r == ParseLineResult(steps, call, line, env)
     IN /\ steps' = r.steps
        /\ call' = r.call
  /\ log' = [log EXCEPT
       !.pairs = IF log.prevAction /\ line.label = "Action Input:" THEN @ + 1 ELSE @,
       !.prevAction = (line.label = "Action:"),
       !.firstFinal = IF line.label = "Final Answer:" /\ ~IsSome(@)
                      THEN Some([answer |-> line.rest, steps |-> Len(steps),
                                 executed |-> Len(log.executed)])
                      ELSE @,
       !.requests = IF Dispatches(line) = 1
                    THEN @ \o ProviderRequests(steps[call.currentStep].actionName[1], env)
                    ELSE @,
       !.env = IF Dispatches(line) = 1 THEN Some(env) ELSE @,
       !.own = @ \o SubSeq(steps', Len(steps) + 1, Len(steps')),
       !.executed = IF Dispatches(line) = 1
                    THEN Append(@, ExecuteTool(steps[call.currentStep].actionName[1],
                                               line.rest, env))
                    ELSE @]
  /\ UNCHANGED <<now, nextId, storeFormat, callers, memVars, pc, response>>

\* the completion has no more lines: parseReActResponse returns
ParseEnd ==
  /\ pc = "parse"
  /\ call' = [call EXCEPT !.parsed = Some(ParsedResponse(steps, call))]
  /\ IF IsSome(call.userId)
     THEN pc' = "storeUser" /\ UNCHANGED response
     ELSE pc' = "done" /\ response' = Some(ParsedResponse(steps, call))
  /\ UNCHANGED <<envVars, memVars, steps, log>>

\* await memoryManager.addMessage({ role: 'user', content: userQuery })
StoreUser(fail) ==
  /\ pc = "storeUser"
  /\ Failing(fail, "none")
  /\ LET res == addMessageResult(Manager, [role |-> "user", content |-> call.query,
                                          toolCalls |-> <<>>], now, nextId,
                                 IF fail = "update" THEN "other" ELSE "ok", fail # "persist")
     IN /\ SetManager(res.m)
        /\ IF res.threw
           THEN /\ fail = "none"
                /\ Caught
                /\ UNCHANGED nextId
           ELSE /\ nextId' = nextId + 1
                /\ pc' = "storeAssistant"
                /\ UNCHANGED <<response, log>>
  /\ UNCHANGED <<now, storeFormat, callers, call, steps>>

\* await memoryManager.addMessage({ role: 'assistant', ... }); return response
StoreAssistant(persistOk) ==
  /\ pc = "storeAssistant"
  /\ Failing(persistOk, TRUE)
  /\ SetManager(addMessage(Manager, [role |-> "assistant", content |-> call.parsed[1].finalAnswer,
                                     toolCalls |-> ToolCalls(steps)], now, nextId,
                           "ok", persistOk))
  /\ nextId' = nextId + 1
  /\ response' = call.parsed
  /\ pc' = "done"
  /\ UNCHANGED <<now, storeFormat, callers, call, steps, log>>

NextAgent ==
  \/ \E query \in {QFlat}, userId \in {None, Some("u1")} : ProcessQuery(query, userId)
  \/ \E fail \in InitFailures, prefRows \in Limit1({r \in dbPrefs : Some(r.userId) = call.userId}),
        sessRows \in UNION {Limit1(LatestSessionRows(dbSessions, u)) : u \in Range(call.userId)} :
       InitializeSessionStep(fail, prefRows, sessRows)
  \/ \E outcome \in UpdateOutcomes : AddToSearchHistoryStep(outcome)
  \/ \E outcome \in {"ok", "throw"} : GenerateText(outcome)
  \/ \E line \in CompletionLines, env \in AgentEnvs :
       call.lines < MaxLines /\ ParseLine(line, env)
  \/ ParseEnd
  \/ \E fail \in {"none", "update", "persist"} : StoreUser(fail)
  \/ \E persistOk \in BOOLEAN : StoreAssistant(persistOk)

SpecAgent == InitAgent /\ [][NextAgent]_vars


\* C1 (as claimed): a completion with N well-formed Action / Action Input pairs
\* gives exactly N action steps, each immediately followed by exactly one
\* observation step carrying the result of the tool call really made; the text
\* of an "Observation:" line of the model is in no step.
C1_PairsGiveObservations ==
  (pc = "done" /\ faults = 0 /\ IsSome(response)) =>
    LET st == response[1].steps
        actionIdx == {i \in 1..Len(st) : st[i].type = "action"}
        observationIdx == {i \in 1..Len(st) : st[i].type = "observation"}
    IN /\ Cardinality(actionIdx) = log.pairs
       /\ Cardinality(observationIdx) = log.pairs
       /\ \A i \in actionIdx :
            /\ i + 1 \in observationIdx
            /\ i + 2 \notin observationIdx
            /\ IsSome(st[i].toolResult) /\ st[i + 1].toolResult = st[i].toolResult
       /\ [k \in 1..Len(log.executed) |-> Some(log.executed[k])]
            = [k \in 1..Cardinality(observationIdx) |->
                 st[CHOOSE i \in observationIdx :
                      Cardinality({j \in observationIdx : j <= i}) = k].toolResult]
       /\ \A i \in 1..Len(st) : st[i].content # ModelGuess.text

\* C8: whatever throws inside processQuery, the call returns a response: the
\* apology as finalAnswer, isComplete = true, needsClarification = false, and
\* the steps collected up to the failure.
C8_NeverRaises ==
  /\ pc = "done" => IsSome(response)
  /\ (pc = "done" /\ log.threw) =>
       response[1] = [steps |-> steps, finalAnswer |-> Apology,
                      isComplete |-> TRUE, needsClarification |-> FALSE]

C8_Witness ==
  /\ pc = "done" /\ log.threw
  /\ IsSome(response)
  /\ Len(response[1].steps) > 0
  /\ \E i \in 1..Len(steps) : steps[i].type = "observation"

\* C9 (as claimed): when the session store fails during initializeSession, the
\* fallback session returned is the active session afterwards, the addMessage
\* calls of processQuery succeed on it, and processQuery returns the answer
\* parsed from the completion, not the apology.
C9_FallbackSessionActive ==
  (log.initFail = "sessList" /\ pc # "initializeSession") =>
    /\ IsSome(currentSession)
    /\ currentSession[1].id = log.lastInit[1].id
    /\ pc = "done" => (~log.threw /\ response = call.parsed
                        /\ response[1].finalAnswer # Apology)

\* C10 (as claimed): a processQuery call with a userId, once it has its parsed
\* completion, leaves the active session with the user query as a user message
\* and then the returned finalAnswer as an assistant message whose toolCalls
\* has one entry per action step of the returned steps, in order.
C10_MessagesPersisted ==
  (pc = "done" /\ IsSome(call.userId) /\ IsSome(call.parsed)) =>
    LET n == Len(SessionMessages)
    IN /\ n >= 2
       /\ SessionMessages[n - 1].role = "user"
       /\ SessionMessages[n - 1].content = call.query
       /\ SessionMessages[n].role = "assistant"
       /\ SessionMessages[n].content = response[1].finalAnswer
       /\ SessionMessages[n].toolCalls = ToolCalls(response[1].steps)


(***************************************************************************)
(* SpecSession: initializeSession called again and again, for one user or  *)
(* another, some time after the previous call.                             *)
(***************************************************************************)
InitSession ==
  /\ now = 0 /\ nextId = 1 /\ faults = 0
  /\ storeFormat \in {"text", "object"}
  /\ currentSession = None /\ userPreferences = None
  /\ dbSessions = {} /\ dbPrefs = {}
  /\ IdleAgent
  /\ log = NoLog

Delays == {oneMinute, oneHour - 1, oneHour}

\* await memoryManager.initializeSession(userId), dt milliseconds after the last call
InitializeSession(userId, dt, fail, prefRows, sessRows) ==
  /\ log.inits < MaxInits
  /\ Failing(fail, "none")
  /\ now' = now + dt
  /\ nextId' = nextId + 1
  /\ LET r == initializeSession(Manager, userId, now', nextId, prefRows, sessRows, fail)
     IN /\ SetManager(r.m)
        /\ log' = [log EXCEPT !.op = "initializeSession", !.inits = @ + 1,
                              !.initFail = fail,
                              !.prevInit = log.lastInit, !.lastInit = Some(r.ret),
                              !.prefIds = @ \cup {[userId |-> r.m.up[1].userId,
                                                    id |-> r.m.up[1].id]}]
  /\ UNCHANGED <<storeFormat, callers, agentVars>>

NextSession ==
  \E userId \in Users, dt \in Delays, fail \in InitFailures :
    \E prefRows \in Limit1({r \in dbPrefs : r.userId = userId}),
       sessRows \in Limit1(LatestSessionRows(dbSessions, userId)) :
      InitializeSession(userId, dt, fail, prefRows, sessRows)

SpecSession == InitSession /\ [][NextSession]_vars

\* C2 (as claimed): with a working store that returns rows as persisted (JSON
\* text), a call for the same user less than one hour after the session's last
\* activity uses the same session id; one hour or more after, it gets a new
\* id and the old session is still in the store under its id.
C2_SessionReuse ==
  (/\ log.op = "initializeSession" /\ storeFormat = "text" /\ faults = 0
   /\ IsSome(log.prevInit)
   /\ log.prevInit[1].userId = log.lastInit[1].userId) =>
    IF now - log.prevInit[1].context.lastActivity < oneHour
    THEN log.lastInit[1].id = log.prevInit[1].id
    ELSE /\ log.lastInit[1].id # log.prevInit[1].id
         /\ SessionRowsById(dbSessions, log.prevInit[1].id) # {}


\* C11 (as claimed): the returned needsClarification is true exactly when the
\* returned finalAnswer contains '?' and one of the six request-for-detail
\* phrases, whichever path produced finalAnswer.
C11_ClarificationIff ==
  (pc = "done" /\ IsSome(response)) =>
    (response[1].needsClarification <=>
       (IncludesQuestionMark(response[1].finalAnswer)
        /\ IncludesDetailPhrase(response[1].finalAnswer)))


\* C12 (as claimed): the first 'Final Answer:' line ends the parsing: no step
\* is appended and no tool is dispatched for a later line, and finalAnswer is
\* the text of that first line.
C12_FinalAnswerTerminates ==
  (/\ pc = "done" /\ ~log.threw /\ IsSome(response)
   /\ IsSome(log.firstFinal) /\ log.firstFinal[1].answer # Empty) =>
    /\ Len(response[1].steps) = log.firstFinal[1].steps
    /\ Len(log.executed) = log.firstFinal[1].executed
    /\ response[1].finalAnswer = log.firstFinal[1].answer


\* C13 (as claimed): in every response of the parser, every action step whose
\* tool is not Clarify is followed later in steps by an observation step that
\* belongs to it (carries the result stored on the action step).
C13_ActionHasObservation ==
  (pc = "done" /\ ~log.threw /\ IsSome(response)) =>
    LET st == response[1].steps
    IN \A i \in 1..Len(st) :
         (st[i].type = "action" /\ LowerCase(st[i].actionName[1]) # "clarify") =>
           \E j \in (i + 1)..Len(st) :
             /\ st[j].type = "observation"
             /\ IsSome(st[i].toolResult)
             /\ st[j].toolResult = st[i].toolResult


(***************************************************************************)
(* SpecTrace: processQuery without a userId on completions that name every *)
(* kind of tool, with every behaviour of the tools' collaborators.         *)
(***************************************************************************)
InitTrace ==
  /\ now = 0 /\ nextId = 1 /\ faults = 0 /\ storeFormat = "text"
  /\ currentSession = None /\ userPreferences = None
  /\ dbSessions = {} /\ dbPrefs = {}
  /\ IdleAgent
  /\ log = NoLog

TraceLines ==
  {Line("Thought:", Str("The user wants a flat.")),
   Line("Action:", Str("Search")), Line("Action:", Str("MarketAnalysis")),
   Line("Action:", Str("Calculator")),
   Line("Action Input:", QFlat), Line("Action Input:", QRoi),
   Line("Final Answer:", AnswerPlain)}

NextTrace ==
  \/ ProcessQuery(QFlat, None)
  \/ \E outcome \in {"ok", "throw"} : GenerateText(outcome)
  \/ \E line \in TraceLines, env \in Envs :
       call.lines < MaxTraceLines /\ ParseLine(line, env)
  \/ ParseEnd

SpecTrace == InitTrace /\ [][NextTrace]_vars

\* the requests to blink.ai that a tool result tells of
RequestsSeenIn(result) ==
  IF result.success
  THEN CASE result.data.kind = "analysis" -> 1
         [] result.data.kind = "analysisText" -> 2
         [] OTHER -> 0
  ELSE IF Includes(result.error[1], "Market analysis failed") THEN 2 ELSE 0

RECURSIVE RequestsSeen(_)
RequestsSeen(results) ==
  IF results = <<>> THEN 0
  ELSE RequestsSeenIn(results[1]) + RequestsSeen(Tail(results))

\* C14 (as claimed): a processQuery call issues exactly one request to the
\* completion provider, whichever tools are dispatched.
C14_AsClaimed == pc = "done" => Len(log.requests) = 1

\* C14 (amended): the loop of a processQuery call issues exactly one
\* completion request, the first request of the call, and nothing is fed to a
\* second one; the only other requests to the provider are those of the
\* MarketAnalysis tool: one structured generation per dispatch, plus one text
\* generation when that one fails.
C14_OneLoopCompletion ==
  pc = "done" =>
    /\ log.requests # <<>> /\ log.requests[1] = "completion"
    /\ \A i \in 2..Len(log.requests) : log.requests[i] # "completion"
    /\ Len(log.requests) = 1 + RequestsSeen(log.executed)

C14_Witness ==
  /\ pc = "done" /\ ~log.threw
  /\ Len(log.requests) = 3
  /\ \E k \in 1..Len(log.executed) :
       log.executed[k].success /\ log.executed[k].data.kind = "analysisText"


\* the results carried by the observation steps, in the order of the steps
ObservedResults(stepsNow) ==
  LET obs == SelectSeq(stepsNow, LAMBDA st : st.type = "observation")
  IN [k \in 1..Len(obs) |-> obs[k].toolResult]

\* C15: tools are dispatched one at a time in the order of their Action /
\* Action Input pairs: whenever the parser is between two lines, every call
\* made so far has its observation appended, and the observation steps are in
\* the order of execution.
C15_SequentialDispatch ==
  ObservedResults(steps) = [k \in 1..Len(log.executed) |-> Some(log.executed[k])]

C15_Witness ==
  /\ pc = "done" /\ ~log.threw
  /\ Len(log.executed) = 2
  /\ log.executed[1] # log.executed[2]
  /\ log.pairs = 2
  /\ Len(SelectSeq(response[1].steps, LAMBDA st : st.type = "action")) = 2


(***************************************************************************)
(* SpecPrefs: initializeSession and updateUserPreferences, one after the   *)
(* other, for one user or another, with store calls that may fail.         *)
(***************************************************************************)
InitPrefs ==
  /\ now = 0 /\ nextId = 1 /\ faults = 0
  /\ storeFormat = "text"
  /\ currentSession = None /\ userPreferences = None
  /\ dbSessions = {} /\ dbPrefs = {}
  /\ IdleAgent
  /\ log = NoLog

UpdateInputs ==
  {[NoUpdates EXCEPT !.bedrooms = Some(2)],
   [NoUpdates EXCEPT !.locations = Some(<<"thamel">>)]}

\* the update of a row that is not in the table: the store may say so
\* ('no such rowid') without any fault of its own
RowMissing == IsSome(userPreferences) /\ \A r \in dbPrefs : r.id # userPreferences[1].id

\* await memoryManager.updateUserPreferences(updates)
UpdateUserPreferences(updates, outcome) ==
  /\ log.updates < MaxUpdates
  /\ Failing(IF RowMissing /\ outcome = "constraint" THEN "ok" ELSE outcome, "ok")
  /\ SetManager(updateUserPreferences(Manager, updates, now, outcome))
  /\ log' = [log EXCEPT !.op = "updateUserPreferences", !.updates = @ + 1,
                        !.prefsBefore = userPreferences,
                        !.update = Some([updates |-> updates, outcome |-> outcome]),
                        !.creates = RecreateRequests(Manager, updates, now, outcome)]
  /\ UNCHANGED <<now, nextId, storeFormat, callers, agentVars>>

NextPrefs ==
  \/ \E userId \in Users, fail \in InitFailures :
       \E prefRows \in Limit1({r \in dbPrefs : r.userId = userId}),
          sessRows \in Limit1(LatestSessionRows(dbSessions, userId)) :
         InitializeSession(userId, oneMinute, fail, prefRows, sessRows)
  \/ \E updates \in UpdateInputs, outcome \in UpdateOutcomes :
       UpdateUserPreferences(updates, outcome)

SpecPrefs == InitPrefs /\ [][NextPrefs]_vars

\* C16 (as claimed): whatever store calls fail, the preferences store holds at
\* most one record for each userId.
C16_OneRecordPerUser ==
  \A u \in Users : Cardinality({r \in dbPrefs : r.userId = u}) <= 1


\* C17 (as claimed): the id of a user's in-memory preferences is the same
\* after every initializeSession for that user, a failing list call included.
C17_StablePreferenceId ==
  \A a, b \in log.prefIds : a.userId = b.userId => a.id = b.id


(***************************************************************************)
(* SpecExtract: user and assistant messages added to a fresh session whose *)
(* preferences start empty, so that every preference the manager holds was *)
(* put there by extractAndUpdatePreferences.                               *)
(***************************************************************************)
InitExtract ==
  /\ faults = 0 /\ storeFormat = "text"
  /\ now = 0 /\ nextId = 1
  /\ currentSession = Some(PreloadedSession(0, 0))
  /\ dbSessions = {SessionRow(PreloadedSession(0, 0))}
  /\ userPreferences = Some(EmptyPreferences(PrefId("db", 0, "u1"), "u1", 0))
  /\ dbPrefs = {PrefsRow(EmptyPreferences(PrefId("db", 0, "u1"), "u1", 0), 0)}
  /\ IdleAgent
  /\ log = NoLog

ExtractInputs ==
  {[role |-> "user", content |-> q, toolCalls |-> <<>>] : q \in {QPlain, QFlat, QFamily, QHouse}}
  \cup {[role |-> "assistant", content |-> QFlat, toolCalls |-> <<>>]}

NextExtract ==
  \E message \in ExtractInputs, fail \in {"none", "update", "persist"} :
    AddMessage(message, 1, fail)

SpecExtract == InitExtract /\ [][NextExtract]_vars

NoDuplicates(s) == \A i, j \in 1..Len(s) : s[i] = s[j] => i = j

\* the message the last addMessage was given
AddedMessage == log.preTrim[Len(log.preTrim)]

\* C18: after addMessage with a user message, locations, propertyType and
\* amenities each hold every element they held before and hold no element
\* twice, and bedrooms and priceRange are what they were or the value just
\* extracted from the message, never absent when they were present.
C18_ExtractionKeepsPreferences ==
  (log.op = "addMessage" /\ AddedMessage.role = "user" /\ IsSome(log.prefsBefore)) =>
    LET before == log.prefsBefore[1]
        after == userPreferences[1]
        extracted == ExtractedUpdates(before, AddedMessage.content)
    IN /\ IsSome(userPreferences)
       /\ \A f \in {"locations", "propertyType", "amenities"} :
            /\ Range(before[f]) \subseteq Range(after[f])
            /\ NoDuplicates(after[f])
       /\ \A f \in {"bedrooms", "priceRange"} :
            /\ after[f] = before[f] \/ (IsSome(extracted[f]) /\ after[f] = extracted[f])
            /\ IsSome(before[f]) => IsSome(after[f])

\* a user message naming a known location and a new one, on preferences that
\* already hold a location, a type, an amenity, bedrooms and a price range
C18_Witness ==
  /\ log.op = "addMessage" /\ AddedMessage.role = "user" /\ IsSome(log.prefsBefore)
  /\ AddedMessage.content = QHouse
  /\ "kathmandu" \in Range(log.prefsBefore[1].locations)
  /\ log.prefsBefore[1].amenities # <<>>
  /\ IsSome(log.prefsBefore[1].bedrooms) /\ IsSome(log.prefsBefore[1].priceRange)
  /\ Len(userPreferences[1].locations) = Len(log.prefsBefore[1].locations) + 1
  /\ userPreferences[1].propertyType = log.prefsBefore[1].propertyType
  /\ userPreferences[1].bedrooms # log.prefsBefore[1].bedrooms


\* C19: an updateUserPreferences whose store update fails keeps the update in
\* memory; a 'NOT NULL constraint' / 'no such rowid' failure asks the store
\* for exactly one create, of the merged in-memory preferences under their
\* own id, and any other failure (or none) asks for no create.
C19_RecreateOnConstraintOnly ==
  (log.op = "updateUserPreferences" /\ IsSome(log.prefsBefore)) =>
    LET before == log.prefsBefore[1]
        updates == log.update[1].updates
        outcome == log.update[1].outcome
    IN /\ userPreferences = Some(MergePreferences(before, updates, now))
       /\ outcome \in {"constraint", "constraintCreateFails"} =>
            /\ log.creates = <<PrefsRow(userPreferences[1], now)>>
            /\ log.creates[1].id = before.id
       /\ outcome \in {"ok", "other"} => log.creates = <<>>
       /\ ~log.threw /\ pc = "idle"

\* a failed update of preferences that then hold bedrooms the row never had
C19_Witness ==
  /\ log.op = "updateUserPreferences" /\ IsSome(log.prefsBefore)
  /\ log.update[1].outcome = "constraintCreateFails"
  /\ log.update[1].updates.bedrooms = Some(2)
  /\ log.prefsBefore[1].bedrooms = None
  /\ Len(log.creates) = 1 /\ log.creates[1].bedrooms = Some(2)
  /\ \A r \in dbPrefs : r.bedrooms = None


(***************************************************************************)
(* SpecNoSession: addMessage called whether or not initializeSession left  *)
(* an active session behind.                                               *)
(***************************************************************************)
NoSessionInputs ==
  {[role |-> "user", content |-> QFlat, toolCalls |-> <<>>],
   [role |-> "assistant", content |-> QPlain, toolCalls |-> <<>>]}

NextNoSession ==
  \/ \E fail \in {"none", "sessList", "sessCreate"} :
       \E prefRows \in Limit1({r \in dbPrefs : r.userId = "u1"}),
          sessRows \in Limit1(LatestSessionRows(dbSessions, "u1")) :
         InitializeSession("u1", oneMinute, fail, prefRows, sessRows)
  \/ \E message \in NoSessionInputs, fail \in {"none", "update"} :
       AddMessage(message, 1, fail)

SpecNoSession == InitPrefs /\ [][NextNoSession]_vars

\* C20: addMessage with no active session throws, and the preferences in
\* memory, the absent session and both store tables are what they were.
C20_NoSessionThrows ==
  (log.op = "addMessage" /\ IsSome(log.managerBefore)
     /\ ~IsSome(log.managerBefore[1].cs)) =>
    /\ log.threw
    /\ Manager = log.managerBefore[1]

\* a user message that names preferences, given to a manager that holds
\* preferences but no session
C20_Witness ==
  /\ log.op = "addMessage" /\ log.threw
  /\ IsSome(log.managerBefore) /\ ~IsSome(log.managerBefore[1].cs)
  /\ ~IsSome(currentSession)
  /\ IsSome(userPreferences)
  /\ AddedMessage.role = "user"
  /\ HasUpdates(ExtractedUpdates(userPreferences[1], AddedMessage.content))


(***************************************************************************)
(* SpecReload: addMessage on a resumed session, and loadSession of a       *)
(* session id, against a store that returns JSON fields as text or parsed. *)
(***************************************************************************)
ReloadShapes == {<<0, 0>>, <<maxMessagesInMemory, 1>>}

InitReload ==
  /\ faults = 0 /\ storeFormat \in {"text", "object"}
  /\ \E shape \in ReloadShapes :
       /\ now = shape[1]
       /\ nextId = shape[1] + 1
       /\ currentSession = Some(PreloadedSession(shape[1], shape[2]))
       /\ dbSessions = {SessionRow(PreloadedSession(shape[1], shape[2]))}
  /\ userPreferences = Some(EmptyPreferences(PrefId("db", 0, "u1"), "u1", 0))
  /\ dbPrefs = {PrefsRow(EmptyPreferences(PrefId("db", 0, "u1"), "u1", 0), 0)}
  /\ IdleAgent
  /\ log = NoLog

\* await memoryManager.loadSession(sessionId)
LoadSession(sessionId, sessRows, ok) ==
  /\ Failing(ok, TRUE)
  /\ SetManager(loadSession(Manager, sessRows, ok))
  /\ log' = [log EXCEPT !.op = "loadSession", !.managerBefore = Some(Manager),
                        !.loaded = Some(sessionId)]
  /\ UNCHANGED <<now, nextId, storeFormat, callers, agentVars>>

SessionIds == {r.id : r \in dbSessions} \cup {SessionId("session", 0, 1)}

NextReload ==
  \/ \E message \in NoSessionInputs, fail \in {"none", "persist"} :
       AddMessage(message, 1, fail)
  \/ \E sessionId \in SessionIds, ok \in BOOLEAN :
       \E sessRows \in Limit1(SessionRowsById(dbSessions, sessionId)) :
         LoadSession(sessionId, sessRows, ok)

SpecReload == InitReload /\ [][NextReload]_vars

\* role, content and timestamp of each message, in order
MessageList(messages) ==
  [i \in 1..Len(messages) |->
     [role |-> messages[i].role, content |-> messages[i].content,
      timestamp |-> messages[i].timestamp]]

\* C21: when no store call has failed, loadSession of the active session's id
\* leaves a session whose messages (role, content, timestamp, in order) are
\* those the session held in memory after the last addMessage trimmed it.
C21_ReloadRoundTrip ==
  (/\ log.op = "loadSession" /\ faults = 0
   /\ IsSome(log.managerBefore[1].cs)
   /\ log.loaded = Some(log.managerBefore[1].cs[1].id)) =>
    /\ IsSome(currentSession)
    /\ currentSession[1].id = log.managerBefore[1].cs[1].id
    /\ MessageList(currentSession[1].messages)
         = MessageList(log.managerBefore[1].cs[1].messages)

\* the reload of a session that addMessage had trimmed to its newest messages
C21_Witness ==
  /\ log.op = "loadSession" /\ faults = 0 /\ log.adds > 0
  /\ log.loaded = Some(log.managerBefore[1].cs[1].id)
  /\ Len(log.preTrim) > maxMessagesInMemory
  /\ Len(currentSession[1].messages) = maxMessagesInMemory
  /\ currentSession[1].messages[maxMessagesInMemory] = log.preTrim[Len(log.preTrim)]


(***************************************************************************)
(* SpecParse: processQuery without a userId on completions made of thought *)
(* lines, unlabelled text, blank lines and 'Final Answer:' lines with and  *)
(* without text (the empty completion included).                           *)
(***************************************************************************)
ParseLines ==
  {Line("Thought:", Str("The user wants a flat.")),
   Line("", Str("Sure, let me look.")),
   Line("Final Answer:", Empty), Line("Final Answer:", AnswerPlain),
   BlankLine}

NextParse ==
  \/ ProcessQuery(QFlat, None)
  \/ \E outcome \in {"ok", "throw"} : GenerateText(outcome)
  \/ \E line \in ParseLines : call.lines < MaxLines /\ ParseLine(line, GoodEnv)
  \/ ParseEnd

SpecParse == InitTrace /\ [][NextParse]_vars

\* C22: whatever the completion, parseReActResponse returns (nothing is
\* thrown) a response with isComplete true and a final answer that is not
\* empty; a completion with no 'Final Answer:' line, or made of a single
\* 'Final Answer:' line without text, gets the need-more-information string.
C22_FinalAnswerNeverEmpty ==
  (pc = "done" /\ log.completions = 1 /\ faults = 0) =>
    /\ ~log.threw /\ IsSome(call.parsed) /\ response = call.parsed
    /\ response[1].isComplete
    /\ response[1].finalAnswer # Empty /\ response[1].finalAnswer.len > 0
    /\ ~IsSome(log.firstFinal) => response[1].finalAnswer = NeedMoreInformation
    /\ (IsSome(log.firstFinal) /\ log.firstFinal[1].answer = Empty /\ call.lines = 1)
         => response[1].finalAnswer = NeedMoreInformation

\* the completion 'Final Answer:' with no text after the label
C22_Witness ==
  /\ pc = "done" /\ ~log.threw /\ call.lines = 1
  /\ IsSome(log.firstFinal) /\ log.firstFinal[1].answer = Empty
  /\ response[1].finalAnswer = NeedMoreInformation


(***************************************************************************)
(* SpecRace: two callers, each with a MemoryManager of its own, resume the *)
(* same stored session and add messages; the update of persistSession is   *)
(* requested at one step and lands in the store at a later one.            *)
(***************************************************************************)
CallerIds == {"a", "b"}

SharedSession == PreloadedSession(2, 0)

InitRace ==
  /\ faults = 0 /\ storeFormat \in {"text", "object"}
  /\ now = 2 /\ nextId = 3
  /\ currentSession = None /\ userPreferences = None
  /\ dbSessions = {SessionRow(SharedSession)}
  /\ dbPrefs = {PrefsRow(EmptyPreferences(PrefId("db", 0, "u1"), "u1", 0), 0)}
  /\ pc = "idle" /\ call = NoCall /\ steps = <<>> /\ response = None
  /\ callers = [c \in CallerIds |-> [cs |-> None, up |-> None, pc |-> "idle"]]
  /\ log = NoLog

\* the manager of caller c, on the shared store
ManagerOf(c) ==
  [cs |-> callers[c].cs, up |-> callers[c].up, dbS |-> dbSessions, dbP |-> dbPrefs]

\* caller c: await memoryManager.loadSession(id) resumes the stored session
ResumeSession(c, sessRows) ==
  /\ callers[c].pc = "idle" /\ ~IsSome(callers[c].cs)
  /\ callers' = [callers EXCEPT ![c].cs = loadSession(ManagerOf(c), sessRows, TRUE).cs]
  /\ UNCHANGED <<now, nextId, faults, storeFormat, memVars, agentVars, log>>

\* caller c: addMessage up to the update request of persistSession
BeginAddMessage(c, message) ==
  /\ log.adds < MaxAdds
  /\ callers[c].pc = "idle" /\ IsSome(callers[c].cs)
  /\ now' = now + 1
  /\ nextId' = nextId + 1
  /\ LET m == addMessage(ManagerOf(c), message, now', nextId, "ok", FALSE)
     IN /\ callers' = [callers EXCEPT ![c].cs = m.cs, ![c].up = m.up, ![c].pc = "persisting"]
        /\ dbPrefs' = m.dbP
  /\ log' = [log EXCEPT !.op = "addMessage", !.adds = @ + 1]
  /\ UNCHANGED <<faults, storeFormat, currentSession, userPreferences, dbSessions, agentVars>>

\* caller c: the update of persistSession lands (or fails) and addMessage returns
CompleteAddMessage(c, ok) ==
  /\ callers[c].pc = "persisting"
  /\ Failing(ok, TRUE)
  /\ dbSessions' = persistSession(ManagerOf(c), ok).dbS
  /\ callers' = [callers EXCEPT ![c].pc = "idle"]
  /\ log' = [log EXCEPT !.lastWrite = IF ok THEN Some(SessionRow(callers[c].cs[1])) ELSE @]
  /\ UNCHANGED <<now, nextId, storeFormat, currentSession, userPreferences, dbPrefs, agentVars>>

NextRace ==
  \/ \E c \in CallerIds :
       \E sessRows \in Limit1(SessionRowsById(dbSessions, SharedSession.id)) :
         ResumeSession(c, sessRows)
  \/ \E c \in CallerIds, message \in NoSessionInputs : BeginAddMessage(c, message)
  \/ \E c \in CallerIds, ok \in BOOLEAN : CompleteAddMessage(c, ok)

SpecRace == InitRace /\ [][NextRace]_vars

AllFinished == \A c \in CallerIds : callers[c].pc = "idle"

StoredMessages(id) ==
  UNION {Range(parseJsonField(Returned(r.messages))) : r \in SessionRowsById(dbSessions, id)}

\* C23: once both callers' addMessage calls have returned, the stored row
\* of the session is the one written by the update that landed last: the
\* store keeps no version and merges nothing.
C23_LastPersistWins ==
  (AllFinished /\ IsSome(log.lastWrite)) =>
    SessionRowsById(dbSessions, SharedSession.id) = {log.lastWrite[1]}

\* a lost update: no store call failed, both calls returned, and the message
\* one caller appended is not in the stored session
C23_Witness ==
  /\ AllFinished /\ faults = 0 /\ IsSome(log.lastWrite)
  /\ \A c \in CallerIds : IsSome(callers[c].cs) /\ Len(callers[c].cs[1].messages) = 3
  /\ \E c \in CallerIds :
       callers[c].cs[1].messages[3] \notin StoredMessages(SharedSession.id)


(***************************************************************************)
(* SpecRoi: the Calculator tool on ROI inputs around the band thresholds.  *)
(***************************************************************************)
Gains == 0..MaxGain
Costs == {0, 8, 20, 40}
RoiQuery(gain, cost) == Str("roi " \o ToString(gain) \o " " \o ToString(cost))
QRoiThree == Str("ROI 24 20 7")
RoiInputs == {RoiQuery(gain, cost) : gain \in Gains, cost \in Costs} \cup {QRoi, QRoiOne, QRoiThree}

NextRoi == \E input \in RoiInputs : DispatchTool("Calculator", input, GoodEnv)

SpecRoi == InitTools /\ [][NextRoi]_vars

\* the band of (gain - cost) / cost * 100, thresholds strict
RoiBand(gain, cost) ==
  LET roi == (gain - cost) * 100
  IN IF roi > 20 * cost THEN "Excellent ROI - Very attractive investment"
     ELSE IF roi > 15 * cost THEN "Good ROI - Solid investment opportunity"
     ELSE IF roi > 10 * cost THEN "Moderate ROI - Acceptable investment"
     ELSE IF roi > 5 * cost THEN "Low ROI - Consider other options"
     ELSE "Poor ROI - Not recommended"

RoiResultIs(tool, gain, cost) ==
  /\ tool.success
  /\ tool.data.calculation_type = "roi"
  /\ tool.data.result.den # 0
  /\ tool.data.result.num * cost = (gain - cost) * 100 * tool.data.result.den
  /\ tool.data.interpretation = RoiBand(gain, cost)

\* C24: Calculator on an ROI input takes the first two number literals as
\* gain and cost, returns (gain - cost) / cost * 100 with the band of strict
\* thresholds (20 is 'Good', not 'Excellent'), and fails when the cost is 0.
C24_RoiBands ==
  (log.op = "executeTool" /\ log.input[1] = "Calculator") =>
    /\ \A gain \in Gains, cost \in Costs :
         log.input[2] = RoiQuery(gain, cost).text =>
           IF cost = 0 THEN ~log.tool[1].success /\ IsSome(log.tool[1].error)
           ELSE RoiResultIs(log.tool[1], gain, cost)
    /\ log.input[2] = QRoi.text =>
         /\ log.tool[1].success /\ log.tool[1].data.calculation_type = "roi"
         /\ log.tool[1].data.result = Fraction(20 * 1000000, 1000000)
         /\ log.tool[1].data.interpretation = "Good ROI - Solid investment opportunity"
    /\ log.input[2] = QRoiThree.text => RoiResultIs(log.tool[1], 24, 20)

\* an ROI of exactly 20
C24_Witness ==
  /\ log.op = "executeTool" /\ log.input = <<"Calculator", RoiQuery(24, 20).text>>
  /\ log.tool[1].success
  /\ log.tool[1].data.interpretation = "Good ROI - Solid investment opportunity"


\* C25 (as claimed): PropertyDatabase on 'Find me a 2BHK apartment in
\* Kathmandu under NPR 30,000' parses bedrooms 2, location Kathmandu, maxPrice
\* 30000 and type apartment, and lists at most 10 listings, each within the
\* four filters, by non-increasing match_score.
C25_ParsedCriteria ==
  (log.op = "executeTool" /\ log.input = <<"PropertyDatabase", QFlat.text>>) =>
    LET data == log.tool[1].data
    IN /\ log.tool[1].success
       /\ data.search_criteria.bedrooms = Some(2)
       /\ data.search_criteria.location = Some("kathmandu")
       /\ data.search_criteria.maxPrice = Some(30000)
       /\ data.search_criteria.propertyType = Some("apartment")
       /\ Len(data.properties) <= 10
       /\ \A i \in 1..Len(data.properties) :
            /\ data.properties[i].bedrooms = 2
            /\ "kathmandu" \in data.properties[i].location
            /\ data.properties[i].price <= 30000
            /\ data.properties[i].title \cap {"apartment", "flat"} # {}
       /\ \A i, j \in 1..Len(data.properties) :
            i < j => data.properties[i].match_score >= data.properties[j].match_score


(***************************************************************************)
(* SpecMaps: processQuery on completions that call the Maps tool, with the *)
(* geospatial collaborator answering, answering not-OK, or unreachable.    *)
(***************************************************************************)
MapsLines ==
  {Line("Thought:", Str("The user wants a flat.")),
   Line("Action:", Str("Maps")),
   Line("Action Input:", QFlat), Line("Action Input:", QPlain),
   Line("Final Answer:", AnswerPlain)}

MapsEnvs == {[GoodEnv EXCEPT !.maps = m] : m \in {"ok", "notOk", "throw"}}

NextMaps ==
  \/ ProcessQuery(QFlat, None)
  \/ \E outcome \in {"ok", "throw"} : GenerateText(outcome)
  \/ \E line \in MapsLines, env \in MapsEnvs :
       call.lines < MaxLines /\ ParseLine(line, env)
  \/ ParseEnd

SpecMaps == InitTrace /\ [][NextMaps]_vars

\* C26: every Maps call returns success = true, with the placeholder payload
\* when the collaborator could not be reached or answered not-OK, and the
\* observation appended for the action reports a successful execution.
C26_MapsNeverFails ==
  /\ \A k \in 1..Len(log.executed) : log.executed[k].success
  /\ (IsSome(log.env) /\ log.env[1].maps # "ok" /\ log.executed # <<>>) =>
       log.executed[Len(log.executed)].data.kind = "mapsMock"
  /\ \A i \in 1..Len(steps) :
       (steps[i].type = "action" /\ IsSome(steps[i].toolResult)) =>
         /\ steps[i].toolResult[1].success
         /\ \E j \in (i + 1)..Len(steps) :
              /\ steps[j].type = "observation"
              /\ steps[j].toolResult = steps[i].toolResult
              /\ Includes(steps[j].content, "Tool executed successfully")

\* a Maps call that could not reach the collaborator, and its observation
C26_Witness ==
  /\ pc = "done" /\ ~log.threw
  /\ IsSome(log.env) /\ log.env[1].maps = "throw"
  /\ Len(log.executed) = 1 /\ log.executed[1].data.kind = "mapsMock"
  /\ \E j \in 1..Len(response[1].steps) :
       /\ response[1].steps[j].type = "observation"
       /\ response[1].steps[j].toolResult = Some(log.executed[1])


\* position of a message of the session (ids are unique)
PositionIn(messages, msg) == CHOOSE i \in 1..Len(messages) : messages[i] = msg

\* C27 (as claimed): the context is a subsequence of the session's messages:
\* any two messages returned, system or not, are in the order they have in
\* the session.
C27_ContextIsSubsequence ==
  log.op = "getConversationContext" =>
    /\ AllIn(log.ctx, log.input)
    /\ \A a, b \in 1..Len(log.ctx) :
         a < b => PositionIn(log.input, log.ctx[a]) < PositionIn(log.input, log.ctx[b])


(***************************************************************************)
(* SpecSteps: processQuery on long completions of thought lines and of     *)
(* lines the parser skips.                                                 *)
(***************************************************************************)
\* ReActAgent.maxSteps
maxSteps == 15

StepLines ==
  {Line("Thought:", Str("The user wants a flat.")), Line("Observation:", ModelGuess)}

NextSteps ==
  \/ ProcessQuery(QFlat, None)
  \/ \E outcome \in {"ok", "throw"} : GenerateText(outcome)
  \/ \E line \in StepLines : call.lines < MaxStepLines /\ ParseLine(line, GoodEnv)
  \/ ParseEnd

SpecSteps == InitTrace /\ [][NextSteps]_vars

\* C28 (as claimed): the steps of every response processQuery returns are at
\* most maxSteps = 15, whatever the completion.
C28_StepsCapped ==
  (pc = "done" /\ IsSome(response)) => Len(response[1].steps) <= maxSteps


(***************************************************************************)
(* SpecOverlap: two processQuery calls (no userId) on the exported agent,  *)
(* each suspended at its awaits while the other runs.  The first call is   *)
(* the one of pc / call / response; the second has its position and locals *)
(* in callers.  Both read and write the one this.steps.                    *)
(***************************************************************************)
IdleCall == [pc |-> "idle", call |-> NoCall, response |-> None, own |-> <<>>]

InitOverlap ==
  /\ now = 0 /\ nextId = 1 /\ faults = 0 /\ storeFormat = "text"
  /\ currentSession = None /\ userPreferences = None
  /\ dbSessions = {} /\ dbPrefs = {}
  /\ pc = "idle" /\ call = NoCall /\ steps = <<>> /\ response = None
  /\ callers = [c \in {"second"} |-> IdleCall]
  /\ log = NoLog

FirstLines ==
  {Line("Thought:", Str("The user wants a flat.")), Line("Final Answer:", AnswerPlain)}
SecondLines ==
  {Line("Thought:", Str("The user wants the ROI.")), Line("Final Answer:", AnswerClarify)}

\* the second call enters processQuery: this.steps = []
SecondProcessQuery(query) ==
  /\ callers["second"].pc = "idle" /\ callers["second"].response = None
  /\ steps' = <<>>
  /\ callers' = [callers EXCEPT !["second"] =
                   [IdleCall EXCEPT !.pc = "generateText", !.call = [NoCall EXCEPT !.query = query]]]
  /\ UNCHANGED <<now, nextId, faults, storeFormat, memVars, pc, call, response, log>>

\* the completion of the second call arrives, or its request fails
SecondGenerateText(outcome) ==
  /\ callers["second"].pc = "generateText"
  /\ Failing(outcome, "ok")
  /\ callers' = [callers EXCEPT
                   !["second"].pc = IF outcome = "ok" THEN "parse" ELSE "done",
                   !["second"].response = IF outcome = "ok" THEN @ ELSE Some(CaughtResponse(steps))]
  /\ UNCHANGED <<now, nextId, storeFormat, memVars, agentVars, log>>

\* one line of the second call's completion goes through the parser loop
SecondParseLine(line) ==
  /\ callers["second"].pc = "parse"
  /\ callers["second"].call.lines < MaxLines
  /\ LET r == ParseLineResult(steps, callers["second"].call, line, GoodEnv)
     IN /\ steps' = r.steps
        /\ callers' = [callers EXCEPT
                         !["second"].call = r.call,
                         !["second"].own = @ \o SubSeq(r.steps, Len(steps) + 1, Len(r.steps))]
  /\ UNCHANGED <<now, nextId, faults, storeFormat, memVars, pc, call, response, log>>

\* parseReActResponse of the second call returns, and processQuery with it
SecondParseEnd ==
  /\ callers["second"].pc = "parse"
  /\ callers' = [callers EXCEPT
                   !["second"].pc = "done",
                   !["second"].response = Some(ParsedResponse(steps, callers["second"].call))]
  /\ UNCHANGED <<now, nextId, faults, storeFormat, memVars, agentVars, log>>

\* parseReActResponse runs from its first line to its return without an
\* await when no line dispatches a tool (FirstLines, SecondLines): the other
\* call takes no step while one call is in that stretch
FirstParsing == pc = "parse"
SecondParsing == callers["second"].pc = "parse"

NextOverlap ==
  \/ ~SecondParsing /\ ProcessQuery(QFlat, None)
  \/ \E outcome \in {"ok", "throw"} : ~SecondParsing /\ GenerateText(outcome)
  \/ \E line \in FirstLines : call.lines < MaxLines /\ ParseLine(line, GoodEnv)
  \/ ParseEnd
  \/ ~FirstParsing /\ SecondProcessQuery(QRoi)
  \/ \E outcome \in {"ok", "throw"} : ~FirstParsing /\ SecondGenerateText(outcome)
  \/ \E line \in SecondLines : SecondParseLine(line)
  \/ SecondParseEnd

SpecOverlap == InitOverlap /\ [][NextOverlap]_vars

\* C29 (as claimed): the steps of the response each of two overlapping calls
\* returns are the steps parsed from that call's own completion, none of the
\* other call's and none missing.
C29_OwnSteps ==
  /\ (pc = "done" /\ ~log.threw /\ IsSome(response)) => response[1].steps = log.own
  /\ (callers["second"].pc = "done" /\ IsSome(callers["second"].response)
        /\ callers["second"].response[1].finalAnswer # Apology) =>
       callers["second"].response[1].steps = callers["second"].own


(***************************************************************************)
(* SpecUsers: the one exported memory manager serves one user and then     *)
(* another; the session list may fail during initializeSession.            *)
(***************************************************************************)
NextUsers ==
  \/ \E userId \in Users, fail \in {"none", "sessList"} :
       \E prefRows \in Limit1({r \in dbPrefs : r.userId = userId}),
          sessRows \in Limit1(LatestSessionRows(dbSessions, userId)) :
         InitializeSession(userId, oneMinute, fail, prefRows, sessRows)
  \/ \E message \in NoSessionInputs : AddMessage(message, 1, "none")

SpecUsers == InitPrefs /\ [][NextUsers]_vars

\* C30 (as claimed): after initializeSession(u) has returned, with or without
\* store failures, a message addMessage appends goes to a session of user u,
\* and the active session getConversationContext reads is a session of u.
C30_SessionOfCaller ==
  (IsSome(log.lastInit) /\ IsSome(currentSession)) =>
    currentSession[1].userId = log.lastInit[1].userId

====
